---- MODULE Spec2Model ----
(***************************************************************************)
(* Vision Helpdesk ticket watcher (skills/vision-helpdesk/scripts/         *)
(* vision-watcher.py): one polling cycle is one run of main().  The state  *)
(* file and the upstream ticket feed outlive a cycle; everything else is   *)
(* local to one run of main().                                             *)
(*                                                                         *)
(* Texts (subject, sender, body) are modelled by the set of signal phrases *)
(* they contain; a keyword test `kw in text` is membership in that set.    *)
(* Timestamps (datetime.now()) are the number of the running cycle.        *)
(***************************************************************************)
EXTENDS Integers, Sequences, FiniteSets, TLC

\* ------------------------------------------------------------------ bounds
\* Cycles (runs of main) in one behaviour.
MaxCycles == 2
\* Collaborator calls of one triage run that fail or answer off the template.
MaxFaults == 2
\* Lengths of an upstream response.
RespLens == {0, 1, 2}
\* Revision markers (modify_date).
Revisions == {1, 2}

\* Ticket identifiers; NoId is a ticket whose ticket_id is missing or empty.
TicketIds == {1, 2}
NoId == 0
\* "no timestamp": last_check None, last_updated key absent.
NoTime == 0

\* ------------------------------------------------------- program constants
\* triage_tickets_immediately: tickets[:10] and triaged_count >= 5.
ScanLimit == 10
TriageLimit == 5
\* send_discord_alert: tickets[:10].
AlertLimit == 10

\* ------------------------------------------------------------- sequences
Range(s) == {s[i] : i \in 1..Len(s)}
Take(s, n) == SubSeq(s, 1, IF Len(s) < n THEN Len(s) ELSE n)
Put(f, k, v) == [x \in DOMAIN f \cup {k} |-> IF x = k THEN v ELSE f[x]]

\* ------------------------------------------------------------------ texts
\* A JSON null where a text is expected ("subject": null).
Null == {"<null>"}
\* (ticket.get("subject") or "").lower()
Text(x) == IF x = Null THEN {} ELSE x

\* ------------------------------------------------------ upstream tickets
\* The tickets the ticketing collaborator may return.  Ticket 1 is a plain,
\* high-priority request.  Ticket 2 is low priority and its body reports an
\* outage; at revision 1 its subject is an invoice notice, at revision 2 it
\* is plain.  The last one has no ticket_id.
UpstreamTickets ==
    { [ticket_id |-> 1, modify_date |-> r, priority |-> "High",
       subject |-> {}, email |-> {}, content |-> {}] : r \in Revisions }
    \cup
    { [ticket_id |-> 2, modify_date |-> r, priority |-> "Low",
       subject |-> IF r = 1 THEN {"invoice"} ELSE {}, email |-> {},
       content |-> {"down"}] : r \in Revisions }
    \cup
    { [ticket_id |-> NoId, modify_date |-> 1, priority |-> "Low",
       subject |-> {}, email |-> {}, content |-> {}] }

Responses == UNION { [1..n -> UpstreamTickets] : n \in RespLens }

\* Parsed command lines of main(); slack_token is --slack-token or the
\* SLACK_BOT_TOKEN variable, webhook is --webhook-url or VISION_WATCHER_WEBHOOK.
AllArgs ==
    [json : BOOLEAN, important_only : BOOLEAN, triage : BOOLEAN,
     slack_channel : BOOLEAN, slack_token : BOOLEAN, webhook : BOOLEAN,
     quiet : BOOLEAN]

\* Command lines of the polling cycles.  Options the code does not read on a
\* path are left off: --json returns before the triage and webhook options
\* are read, the Slack options are read only under --triage, and a Slack
\* channel hides the webhook.  The cycles are scheduled with channel and
\* token together and without --quiet.
Configs ==
    { a \in AllArgs :
        /\ a.json => ~a.triage /\ ~a.webhook /\ ~a.important_only
        /\ ~a.triage => ~a.slack_channel
        /\ a.slack_channel = a.slack_token
        /\ a.slack_channel => a.webhook
        /\ a.important_only => a.webhook
        /\ ~a.quiet }

\* Command lines of a run that reaches triage_tickets_immediately.
TriageConfigs ==
    { a \in AllArgs : a.triage /\ ~a.json /\ ~a.important_only }

NoArgs == [json |-> FALSE, important_only |-> FALSE, triage |-> FALSE,
           slack_channel |-> FALSE, slack_token |-> FALSE, webhook |-> FALSE,
           quiet |-> FALSE]

\* ----------------------------------------------------- credential resolver
\* A key that is not in the output of `pass`, a variable that is not set.
Absent == "<absent>"
\* What `pass <path>` comes to: a non-zero exit (CalledProcessError), no such
\* program (another exception), or KEY=value lines.  Of the lines only the
\* keys VISION_TOKEN, token and url are read; a value may be empty.
PassError == [kind |-> "error", VISION_TOKEN |-> Absent, token |-> Absent,
              url |-> Absent]
PassMissing == [kind |-> "noprog", VISION_TOKEN |-> Absent, token |-> Absent,
                url |-> Absent]
PassEntries ==
    [kind : {"lines"}, VISION_TOKEN : {Absent, "", "legacy-token"},
     token : {Absent, "", "store-token"}, url : {Absent, "store-url"}]
PassResults == {PassError, PassMissing} \cup PassEntries
DefaultUrl == "https://clients.sipcapturer.com/api/index.php"

\* What get_credentials comes to: a dict, or an exception.
Resolved(token, url) == [ok |-> TRUE, token |-> token, url |-> url, error |-> ""]
Unresolved(error) == [ok |-> FALSE, token |-> Absent, url |-> Absent,
                      error |-> error]

\* Faulty normalization: VISION_TOKEN wins over the key token.
NormalizedToken_LegacyWins(r) ==
    IF r.VISION_TOKEN # Absent THEN r.VISION_TOKEN ELSE r.token

\* normalized["token"]: the key token wins over VISION_TOKEN.
NormalizedToken(r) ==
    IF r.token # Absent THEN r.token ELSE r.VISION_TOKEN

RECURSIVE TryPaths(_, _)
\* for path in paths_to_try, from path i on.
TryPaths(store, i) ==
    IF i > Len(store) THEN Unresolved("RuntimeError")
    ELSE LET r == store[i] IN
         IF r.kind = "noprog" THEN Unresolved("FileNotFoundError")
         ELSE IF r.kind = "error" THEN TryPaths(store, i + 1)
         ELSE IF NormalizedToken(r) \notin {Absent, ""}
         THEN Resolved(NormalizedToken(r),
                       IF r.url # Absent THEN r.url ELSE DefaultUrl)
         ELSE TryPaths(store, i + 1)

\* get_credentials(profile): s.store is what `pass` answers for the two
\* paths of the profile, s.env the token in the profile's environment
\* variables, which the function does not read.
get_credentials(s) == TryPaths(s.store, 1)

\* The secret store and environment of the polling cycles: one that has the
\* token under the first path, one that has nothing.
GoodSecrets ==
    [store |-> << [kind |-> "lines", VISION_TOKEN |-> Absent,
                   token |-> "store-token", url |-> Absent], PassError >>,
     env |-> Absent]
NoSecrets == [store |-> <<PassError, PassError>>, env |-> Absent]

\* ------------------------------------------------------------ state store
\* Faulty state store: a run waits at open() while another run is between
\* its load and its save.
Excluded_Held(theirs) == theirs \in {"detect", "filter", "save"}

\* load_state and save_state open the file without taking a lock: no run
\* is kept out by the position `theirs` of another run.
Excluded(theirs) == FALSE

EmptySeen == [x \in {} |-> 0]
EmptyState == [seen_tickets |-> EmptySeen, last_check |-> NoTime]

\* What json.loads returns for a file that holds JSON of another shape
\* (an array): load_state hands it on as it is.
ForeignState == [seen_tickets |-> EmptySeen, last_check |-> NoTime,
                 shape |-> "array"]
\* A value main() can use as its state: a dict.
IsStateDict(st) == DOMAIN st = {"seen_tickets", "last_check"}

\* The state file: missing, not JSON, JSON of another shape, a path whose
\* parent directory does not exist, or a JSON document.
MissingFile == [kind |-> "missing", doc |-> EmptyState]
CorruptFile == [kind |-> "corrupt", doc |-> EmptyState]
ForeignFile == [kind |-> "foreign", doc |-> ForeignState]
NoDirFile == [kind |-> "nodir", doc |-> EmptyState]

load_state(f) == IF f.kind \in {"doc", "foreign"} THEN f.doc ELSE EmptyState
\* The identifiers the file has a record for.
SeenOf(f) == DOMAIN load_state(f).seen_tickets

\* Faulty save_state: the file is rewritten with a fresh state instead of the mutated one.
save_state_Fresh(st) == [kind |-> "doc", doc |-> EmptyState]

save_state(st) == [kind |-> "doc", doc |-> st]

\* --------------------------------------------------------- change detector
\* str(ticket.get("ticket_id", ""))
TicketKey(t) == t.ticket_id

\* Faulty loop body: a stored revision is replaced only by a higher one.
ClassifyOne_OnlyNewer(acc, t, tnow) ==
    LET id == t.ticket_id IN
    IF id = NoId THEN acc
    ELSE IF id \notin DOMAIN acc.seen
    THEN [seen |-> Put(acc.seen, id, [modify_date |-> t.modify_date,
                                      first_seen |-> tnow,
                                      last_updated |-> NoTime]),
          new |-> Append(acc.new, t),
          updated |-> acc.updated]
    ELSE IF acc.seen[id].modify_date < t.modify_date
    THEN [seen |-> [acc.seen EXCEPT ![id].modify_date = t.modify_date,
                                    ![id].last_updated = tnow],
          new |-> acc.new,
          updated |-> Append(acc.updated, t)]
    ELSE acc

\* Faulty loop body: an updated ticket gets its new revision on record but
\* last_updated stays as it was.
ClassifyOne_NoStamp(acc, t, tnow) ==
    LET id == t.ticket_id IN
    IF id = NoId THEN acc
    ELSE IF id \notin DOMAIN acc.seen
    THEN [seen |-> Put(acc.seen, id, [modify_date |-> t.modify_date,
                                      first_seen |-> tnow,
                                      last_updated |-> NoTime]),
          new |-> Append(acc.new, t),
          updated |-> acc.updated]
    ELSE IF acc.seen[id].modify_date # t.modify_date
    THEN [seen |-> [acc.seen EXCEPT ![id].modify_date = t.modify_date],
          new |-> acc.new,
          updated |-> Append(acc.updated, t)]
    ELSE acc

\* Faulty loop body: an updated ticket gets a new first_seen too.
ClassifyOne_Restamp(acc, t, tnow) ==
    LET id == t.ticket_id IN
    IF id = NoId THEN acc
    ELSE IF id \notin DOMAIN acc.seen
    THEN [seen |-> Put(acc.seen, id, [modify_date |-> t.modify_date,
                                      first_seen |-> tnow,
                                      last_updated |-> NoTime]),
          new |-> Append(acc.new, t),
          updated |-> acc.updated]
    ELSE IF acc.seen[id].modify_date # t.modify_date
    THEN [seen |-> [acc.seen EXCEPT ![id].modify_date = t.modify_date,
                                    ![id].first_seen = tnow,
                                    ![id].last_updated = tnow],
          new |-> acc.new,
          updated |-> Append(acc.updated, t)]
    ELSE acc

\* One iteration of the loop of check_tickets.
ClassifyOne(acc, t, tnow) ==
    LET id == TicketKey(t) IN
    IF id = NoId THEN acc
    ELSE IF id \notin DOMAIN acc.seen
    THEN [seen |-> Put(acc.seen, id, [modify_date |-> t.modify_date,
                                      first_seen |-> tnow,
                                      last_updated |-> NoTime]),
          new |-> Append(acc.new, t),
          updated |-> acc.updated]
    ELSE IF acc.seen[id].modify_date # t.modify_date
    THEN [seen |-> [acc.seen EXCEPT ![id].modify_date = t.modify_date,
                                    ![id].last_updated = tnow],
          new |-> acc.new,
          updated |-> Append(acc.updated, t)]
    ELSE acc

RECURSIVE ClassifyFrom(_, _, _, _)
ClassifyFrom(acc, tickets, i, tnow) ==
    IF i > Len(tickets) THEN acc
    ELSE ClassifyFrom(ClassifyOne(acc, tickets[i], tnow), tickets, i + 1, tnow)

\* Faulty check_tickets: the seen map is rebuilt from the response alone.
check_tickets_Forget(st, tickets, tnow) ==
    LET r == ClassifyFrom([seen |-> EmptySeen, new |-> <<>>, updated |-> <<>>],
                          tickets, 1, tnow)
    IN [state |-> [seen_tickets |-> r.seen, last_check |-> tnow],
        new |-> r.new, updated |-> r.updated]

\* check_tickets after a successful query: the mutated state and both lists.
check_tickets(st, tickets, tnow) ==
    LET r == ClassifyFrom([seen |-> st.seen_tickets, new |-> <<>>, updated |-> <<>>],
                          tickets, 1, tnow)
    IN [state |-> [seen_tickets |-> r.seen, last_check |-> tnow],
        new |-> r.new, updated |-> r.updated]

IsImportant(t) == t.priority \in {"High", "Urgent"}
RECURSIVE filter_important(_)
filter_important(tickets) ==
    IF tickets = <<>> THEN <<>>
    ELSE (IF IsImportant(Head(tickets)) THEN <<Head(tickets)>> ELSE <<>>)
         \o filter_important(Tail(tickets))

\* ------------------------------------------------------- triage classifier
billing_keywords == {"invoice", "payment", "funding", "funds", "billing",
                     "receipt", "statement", "balance due", "pay now",
                     "eligible invoices", "get funds", "received your invoice"}
spam_domains == {"marketing", "newsletter", "promo", "noreply@"}
system_keywords == {"automatic notification", "do not reply", "system alert"}

\* Faulty skip filter: the billing rule is missing.
should_skip_ticket_NoBilling(t) ==
    IF Text(t.email) \cap spam_domains # {} THEN <<TRUE, "spam sender">>
    ELSE IF Text(t.subject) \cap system_keywords # {}
    THEN <<TRUE, "system notification">>
    ELSE <<FALSE, "">>

\* Faulty skip filter: the billing keywords are looked for in the sender
\* too.
should_skip_ticket_SenderBilling(t) ==
    IF (Text(t.subject) \cup Text(t.email)) \cap billing_keywords # {}
    THEN <<TRUE, "billing/invoice">>
    ELSE IF Text(t.email) \cap spam_domains # {} THEN <<TRUE, "spam sender">>
    ELSE IF Text(t.subject) \cap system_keywords # {}
    THEN <<TRUE, "system notification">>
    ELSE <<FALSE, "">>

should_skip_ticket(t) ==
    IF Text(t.subject) \cap billing_keywords # {} THEN <<TRUE, "billing/invoice">>
    ELSE IF Text(t.email) \cap spam_domains # {} THEN <<TRUE, "spam sender">>
    ELSE IF Text(t.subject) \cap system_keywords # {}
    THEN <<TRUE, "system notification">>
    ELSE <<FALSE, "">>

ShouldSkip(t) == should_skip_ticket(t)[1]

spam_signals == {"unsubscribe", "click here", "act now", "limited time",
                 "invoice attached", "get funds", "eligible invoices",
                 "marketing", "newsletter"}
auto_signals == {"automatic reply", "auto-reply", "autoreply", "i am currently out",
                 "i will be out of the office", "i'm currently out",
                 "thank you for your email", "i will respond when i return"}
request_signals == {"please", "need", "want", "can you", "could you", "forward",
                    "change", "update"}
billing_signals == {"invoice", "payment", "billing", "charge", "receipt",
                    "account balance"}
urgent_signals == {"down", "not working", "emergency", "urgent", "asap",
                   "can't make calls", "no dial tone"}
routing_signals == {"forward", "routing", "route", "transfer", "redirect"}
voicemail_signals == {"voicemail", "vm", "greeting", "message"}
hardware_signals == {"phone", "handset", "device", "hardware"}

Verdict(src, cat, urg, act) ==
    [source |-> src, category |-> cat, urgency |-> urg, action |-> act]
NoVerdict == Verdict("none", "", "", "")
\* The reasoning collaborator's text, taken as it comes: one that fills the
\* four fields of the template, and one that has none of them.
ClaudeVerdict == Verdict("claude", "?", "?", "?")
MalformedText == Verdict("claude", "", "", "")
\* No verdict: the call raised.
Raised == Verdict("raise", "", "", "")

\* What subprocess.run(["claude", ...]) can come to: exit 0 with a text on
\* the template, exit 0 with another text, or anything else (non-zero exit,
\* empty output, timeout, no such program).
ClaudeOutcomes == {"verdict", "malformed", "fail"}

\* Phrases of a body that stand after its first 500 characters.
Beyond500 == {"[500+] please", "[500+] unsubscribe"}
\* content.lower()[:500]
First500(content) == content \ Beyond500

\* Faulty fallback: the billing rule is applied before the spam rule and the
\* auto-reply rule.
generate_fallback_triage_BillingFirst(subject, content) ==
    LET combined == subject \cup First500(content) IN
    IF subject = Null \/ content = Null THEN Raised
    ELSE IF combined \cap billing_signals # {}
    THEN Verdict("fallback", "billing", "low", "Forward to accounting")
    ELSE IF combined \cap spam_signals # {}
    THEN Verdict("fallback", "spam", "none", "Ignore - spam/marketing")
    ELSE IF combined \cap auto_signals # {} /\ combined \cap request_signals = {}
    THEN Verdict("fallback", "other", "none", "Close - auto-reply")
    ELSE Verdict("fallback",
                 IF combined \cap routing_signals # {} THEN "routing"
                 ELSE IF combined \cap voicemail_signals # {} THEN "voicemail"
                 ELSE IF combined \cap hardware_signals # {} THEN "hardware"
                 ELSE "other",
                 IF combined \cap urgent_signals # {} THEN "high" ELSE "medium",
                 "Review ticket")

\* Faulty fallback: urgent phrasing is not looked for, the urgency of a
\* ticket no terminal rule matches is medium.
generate_fallback_triage_Medium(subject, content) ==
    LET combined == subject \cup First500(content) IN
    IF subject = Null \/ content = Null THEN Raised
    ELSE IF combined \cap spam_signals # {}
    THEN Verdict("fallback", "spam", "none", "Ignore - spam/marketing")
    ELSE IF combined \cap auto_signals # {} /\ combined \cap request_signals = {}
    THEN Verdict("fallback", "other", "none", "Close - auto-reply")
    ELSE IF combined \cap billing_signals # {}
    THEN Verdict("fallback", "billing", "low", "Forward to accounting")
    ELSE Verdict("fallback",
                 IF combined \cap routing_signals # {} THEN "routing"
                 ELSE IF combined \cap voicemail_signals # {} THEN "voicemail"
                 ELSE IF combined \cap hardware_signals # {} THEN "hardware"
                 ELSE "other",
                 "medium",
                 "Review ticket")

\* subject.lower() and content.lower() raise on None; the rules read the
\* subject and the first 500 characters of the body.
generate_fallback_triage(subject, content) ==
    LET combined == subject \cup First500(content) IN
    IF subject = Null \/ content = Null THEN Raised
    ELSE IF combined \cap spam_signals # {}
    THEN Verdict("fallback", "spam", "none", "Ignore - spam/marketing")
    ELSE IF combined \cap auto_signals # {} /\ combined \cap request_signals = {}
    THEN Verdict("fallback", "other", "none", "Close - auto-reply")
    ELSE IF combined \cap billing_signals # {}
    THEN Verdict("fallback", "billing", "low", "Forward to accounting")
    ELSE Verdict("fallback",
                 IF combined \cap routing_signals # {} THEN "routing"
                 ELSE IF combined \cap voicemail_signals # {} THEN "voicemail"
                 ELSE IF combined \cap hardware_signals # {} THEN "hardware"
                 ELSE "other",
                 IF combined \cap urgent_signals # {} THEN "high" ELSE "medium",
                 "Review ticket")

\* triage_with_claude: content is the body of the detail record, empty when
\* the fetch failed; the text of a successful run is returned as it is.
triage_with_claude(t, content, outcome) ==
    IF outcome = "verdict" THEN ClaudeVerdict
    ELSE IF outcome = "malformed" THEN MalformedText
    ELSE generate_fallback_triage(t.subject, content)

\* ------------------------------------------------------------ alert router
\* Faulty precedence: the webhook wins over the Slack channel.
Destination_WebhookFirst(a) ==
    IF a.webhook THEN "post_discord"
    ELSE IF a.slack_channel /\ a.slack_token THEN "post_slack"
    ELSE "print"

\* The destination of a triage verdict.
Destination(a) ==
    IF a.slack_channel /\ a.slack_token THEN "post_slack"
    ELSE IF a.webhook THEN "post_discord"
    ELSE "print"

\* post_triage_to_discord and post_triage_to_slack slice the subject before
\* the request is made: ticket.get("subject", "No subject")[:80].
PostRaises(dest, t) == dest \in {"post_slack", "post_discord"} /\ t.subject = Null

\* One entry of the record of a cycle: a call main() made, with the tickets
\* it was about, the verdict it carried and whether it succeeded.
Call(op, tix, v, ok) == [op |-> op, tickets |-> tix, verdict |-> v, ok |-> ok]

\* ---------------------------------------------------------- run controller
VARIABLES
    file,             \* the persisted state file
    upstream,         \* what the get_tickets query returns at this moment
    now,              \* number of the current cycle (datetime.now())
    pc,               \* position in main()
    args,             \* parsed command line of the running cycle
    state,            \* the in-memory state of the running cycle
    new_tickets,      \* main's new_tickets
    updated_tickets,  \* main's updated_tickets
    idx,              \* position of the triage loop in tickets[:10]
    triaged_count,    \* triage_tickets_immediately's counter
    calls,            \* what the running cycle did so far, in order
    exit_code,        \* exit status of the last finished cycle, -1 while running
    observed,         \* history: both lists as check_tickets returned them
    stable,           \* history: upstream unchanged since the last persisted cycle
    everNew,          \* history: identifiers classified new by an earlier cycle
    lastRev,          \* history: revision last returned for each identifier
    offered,          \* history: posts attempted for a ticket reported as new
    delivered,        \* history: posts accepted for a ticket reported as new
    secrets,          \* the secret store and environment get_credentials reads
    client,           \* one api_request call of the Motion or SkySwitch command line
    other             \* the locals of a second run of main() on the same file

cycleVars == <<pc, args, state, new_tickets, updated_tickets, idx, triaged_count,
               calls, exit_code, observed>>
histVars == <<stable, everNew, lastRev, offered, delivered>>
sideVars == <<secrets, client, other>>
vars == <<file, upstream, now, cycleVars, histVars, sideVars>>

\* No second run.
NoOther == [pc |-> "none", state |-> EmptyState, new |-> <<>>, updated |-> <<>>]

\* No api_request call of a command-line client is in progress.
NoClient == [pc |-> "none"]

\* Faulty order: main() saves the state after routing instead of before it.
main_next_SaveLast(at, a, new) ==
    CASE at = "load" -> "detect"
      [] at = "detect" -> "filter"
      [] at = "filter" -> "output"
      [] at = "output" ->
            IF a.json THEN "save"
            ELSE IF a.triage /\ new # <<>> THEN "triage"
            ELSE IF a.webhook THEN "alert"
            ELSE "save"
      [] at = "triage" -> "save"
      [] at = "alert" -> "save"
      [] at = "save" -> "exit"
      [] at = "exit" -> "done"
      [] OTHER -> "done"

\* Faulty routing: with a webhook the batch alerts follow the triage loop.
main_next_AlertAfterTriage(at, a, new) ==
    CASE at = "load" -> "detect"
      [] at = "detect" -> "filter"
      [] at = "filter" -> "save"
      [] at = "save" -> "output"
      [] at = "output" ->
            IF a.json THEN "done"
            ELSE IF a.triage /\ new # <<>> THEN "triage"
            ELSE IF a.webhook THEN "alert"
            ELSE "exit"
      [] at = "triage" -> IF a.webhook THEN "alert" ELSE "exit"
      [] at = "alert" -> "exit"
      [] at = "exit" -> "done"
      [] OTHER -> "done"

\* Faulty order: with --json main() returns before it saves the state.
main_next_JsonNoSave(at, a, new) ==
    CASE at = "load" -> "detect"
      [] at = "detect" -> "filter"
      [] at = "filter" -> IF a.json THEN "output" ELSE "save"
      [] at = "save" -> "output"
      [] at = "output" ->
            IF a.json THEN "done"
            ELSE IF a.triage /\ new # <<>> THEN "triage"
            ELSE IF a.webhook THEN "alert"
            ELSE "exit"
      [] at = "triage" -> "exit"
      [] at = "alert" -> "exit"
      [] at = "exit" -> "done"
      [] OTHER -> "done"

\* Control flow of main(): the statement that follows `at`.
main_next(at, a, new) ==
    CASE at = "load" -> "detect"
      [] at = "detect" -> "filter"
      [] at = "filter" -> "save"
      [] at = "save" -> "output"
      [] at = "output" ->
            IF a.json THEN "done"
            ELSE IF a.triage /\ new # <<>> THEN "triage"
            ELSE IF a.webhook THEN "alert"
            ELSE "exit"
      [] at = "triage" -> "exit"
      [] at = "alert" -> "exit"
      [] at = "exit" -> "done"
      [] OTHER -> "done"

NoneObserved == [new |-> <<>>, updated |-> <<>>]

Init ==
    /\ file \in {MissingFile, CorruptFile, ForeignFile}
    /\ upstream = <<>>
    /\ now = 0
    /\ pc = "idle"
    /\ args = NoArgs
    /\ state = EmptyState
    /\ new_tickets = <<>>
    /\ updated_tickets = <<>>
    /\ idx = 1
    /\ triaged_count = 0
    /\ calls = <<>>
    /\ exit_code = -1
    /\ observed = NoneObserved
    /\ stable = FALSE
    /\ everNew = {}
    /\ lastRev = [i \in TicketIds |-> 0]
    /\ offered = [i \in TicketIds |-> 0]
    /\ delivered = [i \in TicketIds |-> 0]
    /\ secrets \in {GoodSecrets, NoSecrets}
    /\ client = NoClient
    /\ other = NoOther

\* The ticketing system changes between two cycles.
UpstreamChange ==
    /\ pc = "idle"
    /\ now < MaxCycles
    /\ upstream' \in Responses \ {upstream}
    /\ stable' = FALSE
    /\ UNCHANGED <<sideVars, file, now, cycleVars, everNew, lastRev, offered, delivered>>

\* The scheduler starts main() with a command line.
StartCycle ==
    /\ pc = "idle"
    /\ now < MaxCycles
    /\ \E a \in Configs : args' = a
    /\ now' = now + 1
    /\ pc' = "load"
    /\ state' = EmptyState
    /\ new_tickets' = <<>>
    /\ updated_tickets' = <<>>
    /\ idx' = 1
    /\ triaged_count' = 0
    /\ calls' = <<>>
    /\ exit_code' = -1
    /\ observed' = NoneObserved
    /\ UNCHANGED <<sideVars, file, upstream, histVars>>

\* state = load_state(state_file)
Load ==
    /\ pc = "load"
    /\ ~Excluded(other.pc)
    /\ state' = load_state(file)
    /\ calls' = Append(calls, Call("load_state", <<>>, NoVerdict, TRUE))
    /\ pc' = main_next("load", args, new_tickets)
    /\ UNCHANGED <<sideVars, file, upstream, now, args, new_tickets, updated_tickets, idx,
                   triaged_count, exit_code, observed, histVars>>

\* Faulty check_tickets: last_check is stamped before the query.
DetectFail_Stamped ==
    /\ pc = "detect"
    /\ \E why \in {"get_credentials", "get_tickets"} :
          /\ why = "get_credentials" <=> ~get_credentials(secrets).ok
          /\ calls' = Append(calls, Call(why, <<>>, NoVerdict, FALSE))
    /\ state' = [state EXCEPT !.last_check = now]
    /\ pc' = "aborted"
    /\ exit_code' = 1
    /\ UNCHANGED <<sideVars, file, upstream, now, args, new_tickets, updated_tickets,
                   idx, triaged_count, observed, histVars>>

\* check_tickets raises (credentials or the query failed): main exits with 1.
DetectFail ==
    /\ pc = "detect"
    /\ \E why \in {"get_credentials", "get_tickets"} :
          /\ why = "get_credentials" <=> ~get_credentials(secrets).ok
          /\ calls' = Append(calls, Call(why, <<>>, NoVerdict, FALSE))
    /\ pc' = "aborted"
    /\ exit_code' = 1
    /\ UNCHANGED <<sideVars, file, upstream, now, args, state, new_tickets, updated_tickets,
                   idx, triaged_count, observed, histVars>>

LastRevOf(tickets, id, old) ==
    LET hits == {i \in 1..Len(tickets) : TicketKey(tickets[i]) = id} IN
    IF hits = {} THEN old
    ELSE tickets[CHOOSE i \in hits : \A j \in hits : j <= i].modify_date

\* check_tickets raises after the query: the loaded value is not a dict and
\* state.get fails; main exits with 1.
DetectBadState ==
    /\ pc = "detect"
    /\ get_credentials(secrets).ok
    /\ ~IsStateDict(state)
    /\ calls' = Append(calls, Call("get_tickets", upstream, NoVerdict, TRUE))
    /\ pc' = "aborted"
    /\ exit_code' = 1
    /\ UNCHANGED <<sideVars, file, upstream, now, args, state, new_tickets, updated_tickets,
                   idx, triaged_count, observed, histVars>>

\* Faulty main: under --important-only the tickets that are not reported are
\* not recorded either.
Detect_RecordReported ==
    /\ pc = "detect"
    /\ get_credentials(secrets).ok
    /\ IsStateDict(state)
    /\ LET r == check_tickets(state,
                              IF args.important_only
                              THEN filter_important(upstream) ELSE upstream,
                              now) IN
         /\ state' = r.state
         /\ new_tickets' = r.new
         /\ updated_tickets' = r.updated
         /\ observed' = [new |-> r.new, updated |-> r.updated]
         /\ everNew' = everNew \cup {TicketKey(r.new[i]) : i \in 1..Len(r.new)}
    /\ lastRev' = [i \in TicketIds |-> LastRevOf(upstream, i, lastRev[i])]
    /\ calls' = Append(calls, Call("get_tickets", upstream, NoVerdict, TRUE))
    /\ pc' = main_next("detect", args, new_tickets')
    /\ UNCHANGED <<sideVars, file, upstream, now, args, idx, triaged_count, exit_code,
                   stable, offered, delivered>>

\* check_tickets returns.
Detect ==
    /\ pc = "detect"
    /\ get_credentials(secrets).ok
    /\ IsStateDict(state)
    /\ LET r == check_tickets(state, upstream, now) IN
         /\ state' = r.state
         /\ new_tickets' = r.new
         /\ updated_tickets' = r.updated
         /\ observed' = [new |-> r.new, updated |-> r.updated]
         /\ everNew' = everNew \cup {TicketKey(r.new[i]) : i \in 1..Len(r.new)}
    /\ lastRev' = [i \in TicketIds |-> LastRevOf(upstream, i, lastRev[i])]
    /\ calls' = Append(calls, Call("get_tickets", upstream, NoVerdict, TRUE))
    /\ pc' = main_next("detect", args, new_tickets')
    /\ UNCHANGED <<sideVars, file, upstream, now, args, idx, triaged_count, exit_code,
                   stable, offered, delivered>>

\* if args.important_only: ...
Filter ==
    /\ pc = "filter"
    /\ new_tickets' = IF args.important_only THEN filter_important(new_tickets)
                      ELSE new_tickets
    /\ updated_tickets' = IF args.important_only THEN filter_important(updated_tickets)
                          ELSE updated_tickets
    /\ calls' = Append(calls, Call("filter", <<>>, NoVerdict, TRUE))
    /\ pc' = main_next("filter", args, new_tickets')
    /\ UNCHANGED <<sideVars, file, upstream, now, args, state, idx, triaged_count,
                   exit_code, observed, histVars>>

\* save_state(state, state_file) raises: write_text cannot open a file in a
\* directory that does not exist, and main() does not catch it.
SaveRaise ==
    /\ pc = "save"
    /\ file.kind = "nodir"
    /\ calls' = Append(calls, Call("save_state", <<>>, NoVerdict, FALSE))
    /\ pc' = "crashed"
    /\ exit_code' = 1
    /\ UNCHANGED <<sideVars, file, upstream, now, args, state, new_tickets, updated_tickets,
                   idx, triaged_count, observed, histVars>>

\* save_state(state, state_file)
Save ==
    /\ pc = "save"
    /\ ~Excluded(other.pc)
    /\ file.kind # "nodir"
    /\ file' = save_state(state)
    /\ calls' = Append(calls, Call("save_state", <<>>, NoVerdict, TRUE))
    /\ stable' = TRUE
    /\ pc' = main_next("save", args, new_tickets)
    /\ UNCHANGED <<sideVars, upstream, now, args, state, new_tickets, updated_tickets, idx,
                   triaged_count, exit_code, observed, everNew, lastRev, offered,
                   delivered>>

\* if args.json: print and return; otherwise go on to routing.
Output ==
    /\ pc = "output"
    /\ pc' = main_next("output", args, new_tickets)
    /\ exit_code' = IF pc' = "done" THEN 0 ELSE exit_code
    /\ UNCHANGED <<sideVars, file, upstream, now, args, state, new_tickets, updated_tickets,
                   idx, triaged_count, calls, observed, histVars>>

\* Faulty loop: it does not move on to the next ticket.
NextIdx_Stuck(i) == i

\* for ticket in tickets[:10]: the next position of the loop.
NextIdx(i) == i + 1

Bump(n) == IF n < 2 THEN n + 1 ELSE n
\* Count the posts of the tickets `tix`, reported as new, in a history counter.
Counted(cnt, tix) ==
    [i \in TicketIds |->
        IF \E k \in 1..Len(tix) : TicketKey(tix[k]) = i THEN Bump(cnt[i]) ELSE cnt[i]]

\* Faulty limit: the loop never stops for the number of verdicts.
LimitReached_Never(n) == FALSE

\* if triaged_count >= 5: break
LimitReached(n) == n >= TriageLimit

\* Faulty post: a failed request ends the run.
AfterPost_Abort(post_ok) == IF post_ok THEN "triage" ELSE "crashed"

\* Where the loop stands after a post: both post functions catch the failure
\* of the request and return.
AfterPost(post_ok) == "triage"

\* Calls of the run so far that failed or answered off the template.
FaultCount(cs) ==
    Cardinality({i \in 1..Len(cs) : ~cs[i].ok \/ cs[i].verdict = MalformedText})

\* The calls of one iteration up to the verdict: detail fetch, reasoning
\* collaborator and, when that failed, the fallback generator.
VerdictCalls(cs, t, detail_ok, outcome, summary) ==
    cs \o
    << Call("ticket_details", <<t>>, NoVerdict, detail_ok),
       Call("claude", <<t>>, NoVerdict, outcome # "fail") >>
    \o (IF outcome = "fail"
        THEN <<Call("fallback", <<t>>, summary, summary # Raised)>>
        ELSE <<>>)

\* triage_tickets_immediately: the loop is over.
TriageEnd ==
    /\ pc = "triage"
    /\ \/ idx > Len(Take(new_tickets, ScanLimit))
       \/ LimitReached(triaged_count)
    /\ pc' = main_next("triage", args, new_tickets)
    /\ UNCHANGED <<sideVars, file, upstream, now, args, state, new_tickets, updated_tickets,
                   idx, triaged_count, calls, exit_code, observed, histVars>>

\* One iteration of the loop: a ticket the skip filter drops.
TriageSkip ==
    /\ pc = "triage"
    /\ idx <= Len(Take(new_tickets, ScanLimit))
    /\ ~LimitReached(triaged_count)
    /\ ShouldSkip(new_tickets[idx])
    /\ calls' = Append(calls, Call("skip", <<new_tickets[idx]>>, NoVerdict, TRUE))
    /\ idx' = NextIdx(idx)
    /\ UNCHANGED <<sideVars, file, upstream, now, pc, args, state, new_tickets,
                   updated_tickets, triaged_count, exit_code, observed, histVars>>

\* One iteration of the loop: detail fetch, verdict, post.
TriageOne ==
    /\ pc = "triage"
    /\ idx <= Len(Take(new_tickets, ScanLimit))
    /\ ~LimitReached(triaged_count)
    /\ ~ShouldSkip(new_tickets[idx])
    /\ LET t == new_tickets[idx]
           dest == Destination(args)
       IN \E detail_ok \in BOOLEAN, outcome \in ClaudeOutcomes, post_ok \in BOOLEAN :
            /\ dest = "print" => post_ok
            /\ LET content == IF detail_ok THEN t.content ELSE {}
                   summary == triage_with_claude(t, content, outcome)
               IN /\ summary # Raised
                  /\ ~PostRaises(dest, t)
                  /\ calls' = VerdictCalls(calls, t, detail_ok, outcome, summary)
                                 \o <<Call(dest, <<t>>, summary, post_ok)>>
            /\ FaultCount(calls') <= MaxFaults
            /\ offered' = Counted(offered, <<t>>)
            /\ delivered' = IF post_ok THEN Counted(delivered, <<t>>) ELSE delivered
            /\ pc' = AfterPost(post_ok)
    /\ triaged_count' = triaged_count + 1
    /\ idx' = NextIdx(idx)
    /\ UNCHANGED <<sideVars, file, upstream, now, args, state, new_tickets,
                   updated_tickets, exit_code, observed, stable, everNew, lastRev>>

\* One iteration of the loop that raises: the fallback generator or the post
\* function fails on a null subject, and nothing up to main() catches it.
TriageRaise ==
    /\ pc = "triage"
    /\ idx <= Len(Take(new_tickets, ScanLimit))
    /\ ~LimitReached(triaged_count)
    /\ ~ShouldSkip(new_tickets[idx])
    /\ LET t == new_tickets[idx]
           dest == Destination(args)
       IN \E detail_ok \in BOOLEAN, outcome \in ClaudeOutcomes :
            LET content == IF detail_ok THEN t.content ELSE {}
                summary == triage_with_claude(t, content, outcome)
            IN /\ summary = Raised \/ PostRaises(dest, t)
               /\ calls' = VerdictCalls(calls, t, detail_ok, outcome, summary)
               /\ FaultCount(calls') <= MaxFaults
    /\ triaged_count' = triaged_count + 1
    /\ pc' = "crashed"
    /\ exit_code' = 1
    /\ UNCHANGED <<sideVars, file, upstream, now, args, state, new_tickets,
                   updated_tickets, idx, observed, histVars>>

\* The positions of new_tickets whose subject is null.
NullSubjects(tickets) == {i \in 1..Len(tickets) : tickets[i].subject = Null}

\* Faulty footer: the indicator is there from ten tickets on.
AlertFooter_FromTen(tickets) ==
    [source |-> "footer",
     more |-> IF Len(tickets) >= AlertLimit
              THEN <<Len(tickets) - AlertLimit>> ELSE <<>>]

\* send_discord_alert: the footer of the embed carries "+N more" when the
\* batch has more than ten tickets; more is <<N>> then and <<>> otherwise.
AlertFooter(tickets) ==
    [source |-> "footer",
     more |-> IF Len(tickets) > AlertLimit
              THEN <<Len(tickets) - AlertLimit>> ELSE <<>>]

\* send_discord_alert slices the subject of each ticket it itemizes:
\* t.get("subject", "No subject")[:100] raises on a null subject.
AlertRaises(tickets) == NullSubjects(Take(tickets, AlertLimit)) # {}

\* The batch alerts of main(): new tickets, then high-priority updates.
BatchAlert ==
    /\ pc = "alert"
    /\ ~AlertRaises(new_tickets)
    /\ ~AlertRaises(filter_important(updated_tickets))
    /\ LET shown_new == Take(new_tickets, AlertLimit)
           important_updates == filter_important(updated_tickets)
           shown_upd == Take(important_updates, AlertLimit)
       IN \E new_ok \in BOOLEAN, upd_ok \in BOOLEAN :
            /\ new_tickets = <<>> => new_ok
            /\ important_updates = <<>> => upd_ok
            /\ calls' = calls
                  \o (IF new_tickets # <<>>
                      THEN <<Call("alert_new", shown_new, AlertFooter(new_tickets),
                                  new_ok)>>
                      ELSE <<>>)
                  \o (IF important_updates # <<>>
                      THEN <<Call("alert_updated", shown_upd,
                                  AlertFooter(important_updates), upd_ok)>>
                      ELSE <<>>)
            /\ offered' = Counted(offered, shown_new)
            /\ delivered' = IF new_ok THEN Counted(delivered, shown_new) ELSE delivered
    /\ pc' = main_next("alert", args, new_tickets)
    /\ UNCHANGED <<sideVars, file, upstream, now, args, state, new_tickets, updated_tickets,
                   idx, triaged_count, exit_code, observed, stable, everNew, lastRev>>

\* A batch alert raises on a null subject: before the alert of the new
\* tickets is posted, or after it when the null subject is among the
\* updates; nothing up to main() catches it.
BatchRaise ==
    /\ pc = "alert"
    /\ AlertRaises(new_tickets) \/ AlertRaises(filter_important(updated_tickets))
    /\ \E new_ok \in BOOLEAN :
          /\ calls' = IF new_tickets # <<>> /\ ~AlertRaises(new_tickets)
                       THEN Append(calls, Call("alert_new",
                                               Take(new_tickets, AlertLimit),
                                               AlertFooter(new_tickets), new_ok))
                       ELSE calls
          /\ offered' = IF AlertRaises(new_tickets) THEN offered
                         ELSE Counted(offered, Take(new_tickets, AlertLimit))
          /\ delivered' = IF AlertRaises(new_tickets) \/ ~new_ok THEN delivered
                           ELSE Counted(delivered, Take(new_tickets, AlertLimit))
    /\ pc' = "crashed"
    /\ exit_code' = 1
    /\ UNCHANGED <<sideVars, file, upstream, now, args, state, new_tickets,
                   updated_tickets, idx, triaged_count, observed, stable, everNew,
                   lastRev>>

\* The two ends of main(): sys.exit(0) under `if new_tickets:` and
\* sys.exit(0) after it.
ExitNew == 0
ExitIdle == 0
ExitSignal(new) == IF new # <<>> THEN ExitNew ELSE ExitIdle

\* The end of main(): unless --quiet, one "NEW:" line for every new ticket;
\* then sys.exit(0).
Exit ==
    /\ pc = "exit"
    /\ args.quiet \/ NullSubjects(new_tickets) = {}
    /\ calls' = IF new_tickets # <<>> /\ ~args.quiet
                 THEN Append(calls, Call("log_new", new_tickets, NoVerdict, TRUE))
                 ELSE calls
    /\ pc' = main_next("exit", args, new_tickets)
    /\ exit_code' = ExitSignal(new_tickets)
    /\ UNCHANGED <<sideVars, file, upstream, now, args, state, new_tickets, updated_tickets,
                   idx, triaged_count, observed, histVars>>

\* The end of main() raises: t.get('subject', '')[:50] on a null subject,
\* after the lines of the tickets before it.
ExitRaise ==
    /\ pc = "exit"
    /\ ~args.quiet
    /\ NullSubjects(new_tickets) # {}
    /\ LET first == CHOOSE i \in NullSubjects(new_tickets) :
                        \A j \in NullSubjects(new_tickets) : i <= j
       IN calls' = Append(calls, Call("log_new", Take(new_tickets, first - 1),
                                      NoVerdict, FALSE))
    /\ pc' = "crashed"
    /\ exit_code' = 1
    /\ UNCHANGED <<sideVars, file, upstream, now, args, state, new_tickets, updated_tickets,
                   idx, triaged_count, observed, histVars>>

\* The process is gone; its locals with it.
Finish ==
    /\ pc \in {"done", "aborted", "crashed"}
    /\ pc' = "idle"
    /\ args' = NoArgs
    /\ state' = EmptyState
    /\ new_tickets' = <<>>
    /\ updated_tickets' = <<>>
    /\ idx' = 1
    /\ triaged_count' = 0
    /\ calls' = <<>>
    /\ exit_code' = -1
    /\ observed' = NoneObserved
    /\ UNCHANGED <<sideVars, file, upstream, now, histVars>>

\* The cycles: their tickets have a text as subject and their state file is
\* in a directory that exists, so no step past the detection raises.
Next ==
    \/ UpstreamChange
    \/ StartCycle
    \/ Load
    \/ DetectFail
    \/ DetectBadState
    \/ Detect
    \/ Filter
    \/ Save
    \/ Output
    \/ TriageEnd
    \/ TriageSkip
    \/ TriageOne
    \/ BatchAlert
    \/ Exit
    \/ Finish

Spec == Init /\ [][Next]_vars

\* ------------------------------------------------- the triage loop alone
\* One run of main() from the call of triage_tickets_immediately on, for new
\* lists long enough for the limits of the loop and for tickets with a null
\* subject.
NewLens == {1, 6, 20}
\* Positions of tickets with a billing subject, and with a null subject.
SkipSets == {{}, {2, 4, 6, 8}, 1..6}
NullSets == {{}, {2}}

TriageTicket(i, skip, null) ==
    [ticket_id |-> i, modify_date |-> 1, priority |-> "Low",
     subject |-> IF i \in null THEN Null
                 ELSE IF i \in skip THEN {"invoice"} ELSE {},
     email |-> {}, content |-> {"down"}]

TriageLists ==
    { [i \in 1..n |-> TriageTicket(i, skip, null)] :
        n \in NewLens, skip \in SkipSets, null \in NullSets }

\* The state main() is in when it calls triage_tickets_immediately in its
\* first cycle: the new tickets are classified and the state is saved.
InitTriage ==
    /\ args \in TriageConfigs
    /\ new_tickets \in TriageLists
    /\ upstream = new_tickets
    /\ now = 1
    /\ state = check_tickets(EmptyState, new_tickets, 1).state
    /\ file = save_state(state)
    /\ pc = "triage"
    /\ updated_tickets = <<>>
    /\ idx = 1
    /\ triaged_count = 0
    /\ calls = << Call("load_state", <<>>, NoVerdict, TRUE),
                  Call("get_tickets", new_tickets, NoVerdict, TRUE),
                  Call("filter", <<>>, NoVerdict, TRUE),
                  Call("save_state", <<>>, NoVerdict, TRUE) >>
    /\ exit_code = -1
    /\ observed = [new |-> new_tickets, updated |-> <<>>]
    /\ stable = TRUE
    /\ everNew = {TicketKey(new_tickets[i]) : i \in 1..Len(new_tickets)}
    /\ lastRev = [i \in TicketIds |-> IF i <= Len(new_tickets) THEN 1 ELSE 0]
    /\ offered = [i \in TicketIds |-> 0]
    /\ delivered = [i \in TicketIds |-> 0]
    /\ secrets = GoodSecrets
    /\ client = NoClient
    /\ other = NoOther

NextTriage ==
    \/ TriageEnd
    \/ TriageSkip
    \/ TriageOne
    \/ TriageRaise
    \/ Exit
    \/ ExitRaise

SpecTriage == InitTriage /\ [][NextTriage]_vars

\* --------------------------------------------------- the state store alone
\* The state file a cycle finds: none, one that is not JSON, a path in a
\* directory that does not exist, or the document an earlier cycle wrote.
StoreFiles ==
    {MissingFile, CorruptFile, NoDirFile}
    \cup {save_state(check_tickets(EmptyState, r, 1).state) : r \in Responses}

\* The state main() is in when it calls save_state: the file is loaded and
\* the response is classified.
InitStore ==
    /\ file \in StoreFiles
    /\ upstream \in Responses
    /\ now = IF file.kind = "doc" THEN 2 ELSE 1
    /\ LET r == check_tickets(load_state(file), upstream, now) IN
         /\ state = r.state
         /\ new_tickets = r.new
         /\ updated_tickets = r.updated
         /\ observed = [new |-> r.new, updated |-> r.updated]
         /\ everNew = SeenOf(file) \cup {TicketKey(r.new[i]) : i \in 1..Len(r.new)}
    /\ args = NoArgs
    /\ pc = "save"
    /\ idx = 1
    /\ triaged_count = 0
    /\ calls = << Call("load_state", <<>>, NoVerdict, TRUE),
                  Call("get_tickets", upstream, NoVerdict, TRUE),
                  Call("filter", <<>>, NoVerdict, TRUE) >>
    /\ exit_code = -1
    /\ stable = FALSE
    /\ lastRev = [i \in TicketIds |->
                    LastRevOf(upstream, i,
                              IF i \in SeenOf(file)
                              THEN file.doc.seen_tickets[i].modify_date ELSE 0)]
    /\ offered = [i \in TicketIds |-> 0]
    /\ delivered = [i \in TicketIds |-> 0]
    /\ secrets = GoodSecrets
    /\ client = NoClient
    /\ other = NoOther

NextStore ==
    \/ Save
    \/ SaveRaise

SpecStore == InitStore /\ [][NextStore]_vars

\* The locals of a run of main() that has called nothing yet.
FreshLocals ==
    /\ args = NoArgs
    /\ state = EmptyState
    /\ new_tickets = <<>>
    /\ updated_tickets = <<>>
    /\ idx = 1
    /\ triaged_count = 0
    /\ exit_code = -1
    /\ observed = NoneObserved

NoHistory ==
    /\ stable = FALSE
    /\ everNew = {}
    /\ lastRev = [i \in TicketIds |-> 0]
    /\ offered = [i \in TicketIds |-> 0]
    /\ delivered = [i \in TicketIds |-> 0]

\* ------------------------------------------------- two runs on one file
\* A second run of main() started while the first is under way.  Of the
\* second run the steps that read or write the state file are followed; its
\* query is answered with other.response.
RaceFiles ==
    {MissingFile} \cup
    {save_state(check_tickets(EmptyState, r, 0).state) :
        r \in {q \in Responses : Len(q) = 1 /\ q[1].ticket_id = 1}}

InitRace ==
    /\ file \in RaceFiles
    /\ upstream \in Responses
    /\ now = 1
    /\ pc = "load"
    /\ calls = <<>>
    /\ FreshLocals
    /\ stable = FALSE
    /\ everNew = SeenOf(file)
    /\ lastRev = [i \in TicketIds |->
                    IF i \in SeenOf(file)
                    THEN file.doc.seen_tickets[i].modify_date ELSE 0]
    /\ offered = [i \in TicketIds |-> 0]
    /\ delivered = [i \in TicketIds |-> 0]
    /\ secrets = GoodSecrets
    /\ client = NoClient
    /\ \E r \in Responses :
          other = [pc |-> "load", state |-> EmptyState, new |-> <<>>,
                   updated |-> <<>>, response |-> r]

\* The second run: state = load_state(state_file)
OtherLoad ==
    /\ other.pc = "load"
    /\ ~Excluded(pc)
    /\ other' = [other EXCEPT !.pc = "detect", !.state = load_state(file)]
    /\ UNCHANGED <<file, upstream, now, cycleVars, histVars, secrets, client>>

\* The second run: check_tickets returns.
OtherDetect ==
    /\ other.pc = "detect"
    /\ get_credentials(secrets).ok
    /\ LET r == check_tickets(other.state, other.response, now) IN
         /\ other' = [other EXCEPT !.pc = "save", !.state = r.state,
                                   !.new = r.new, !.updated = r.updated]
         /\ everNew' = everNew \cup {TicketKey(r.new[i]) : i \in 1..Len(r.new)}
    /\ UNCHANGED <<file, upstream, now, cycleVars, stable, lastRev, offered,
                   delivered, secrets, client>>

\* The second run: save_state(state, state_file)
OtherSave ==
    /\ other.pc = "save"
    /\ ~Excluded(pc)
    /\ file' = save_state(other.state)
    /\ other' = [other EXCEPT !.pc = "done"]
    /\ UNCHANGED <<upstream, now, cycleVars, histVars, secrets, client>>

NextRace ==
    \/ Load
    \/ Detect
    \/ Filter
    \/ Save
    \/ Output
    \/ Exit
    \/ OtherLoad
    \/ OtherDetect
    \/ OtherSave

SpecRace == InitRace /\ [][NextRace]_vars

\* ------------------------------------------------- a first cycle with --json
\* A first cycle run with --json on a state file that is missing or has a
\* record of ticket 1 from time 0, and the cycles after it.
InitJson ==
    /\ file \in RaceFiles
    /\ upstream \in Responses
    /\ now = 1
    /\ pc = "load"
    /\ args \in {a \in Configs : a.json}
    /\ state = EmptyState
    /\ new_tickets = <<>>
    /\ updated_tickets = <<>>
    /\ idx = 1
    /\ triaged_count = 0
    /\ calls = <<>>
    /\ exit_code = -1
    /\ observed = NoneObserved
    /\ stable = FALSE
    /\ everNew = SeenOf(file)
    /\ lastRev = [i \in TicketIds |->
                    IF i \in SeenOf(file)
                    THEN file.doc.seen_tickets[i].modify_date ELSE 0]
    /\ offered = [i \in TicketIds |-> 0]
    /\ delivered = [i \in TicketIds |-> 0]
    /\ secrets = GoodSecrets
    /\ client = NoClient
    /\ other = NoOther

NextJson ==
    \/ UpstreamChange
    \/ StartCycle
    \/ Load
    \/ DetectFail
    \/ Detect
    \/ Filter
    \/ Save
    \/ Output
    \/ TriageEnd
    \/ TriageSkip
    \/ TriageOne
    \/ BatchAlert
    \/ Exit
    \/ Finish

SpecJson == InitJson /\ [][NextJson]_vars

\* --------------------------------------------- a ticket whose priority rises
\* A first cycle under --important-only that finds ticket 1 with priority
\* Low, and the cycles after it, between which the priority and the revision
\* of the ticket may change.
RisingTicket(rev, prio) ==
    [ticket_id |-> 1, modify_date |-> rev, priority |-> prio,
     subject |-> {}, email |-> {}, content |-> {}]
SteadyTicket ==
    [ticket_id |-> 2, modify_date |-> 1, priority |-> "High",
     subject |-> {}, email |-> {}, content |-> {}]
Priorities == {"Low", "High", "Urgent"}

InitRising ==
    /\ upstream \in {<<RisingTicket(1, "Low")>>,
                      <<RisingTicket(1, "Low"), SteadyTicket>>}
    /\ file = MissingFile
    /\ now = 1
    /\ pc = "load"
    /\ args \in {a \in Configs : a.important_only}
    /\ state = EmptyState
    /\ new_tickets = <<>>
    /\ updated_tickets = <<>>
    /\ idx = 1
    /\ triaged_count = 0
    /\ calls = <<>>
    /\ exit_code = -1
    /\ observed = NoneObserved
    /\ NoHistory
    /\ secrets = GoodSecrets
    /\ client = NoClient
    /\ other = NoOther

\* Between two cycles the ticketing system gives ticket 1 another priority,
\* with or without another revision.
Escalate ==
    /\ pc = "idle"
    /\ now < MaxCycles
    /\ \E rev \in Revisions, prio \in Priorities :
          /\ RisingTicket(rev, prio) # upstream[1]
          /\ upstream' = [upstream EXCEPT ![1] = RisingTicket(rev, prio)]
    /\ stable' = FALSE
    /\ UNCHANGED <<sideVars, file, now, cycleVars, everNew, lastRev, offered,
                   delivered>>

NextRising ==
    \/ Escalate
    \/ StartCycle
    \/ Load
    \/ Detect
    \/ Filter
    \/ Save
    \/ Output
    \/ TriageEnd
    \/ TriageOne
    \/ BatchAlert
    \/ Exit
    \/ Finish

SpecRising == InitRising /\ [][NextRising]_vars

\* ------------------------------------------------ the batch alerts alone
\* One run of main() from the batch alerts on, for batches below, at and
\* above the limit of the embed.
BatchLens == {0, 1, 9, 10, 11, 12}
AlertNulls == {{}, {2}, {11}}
AlertTicket(i, null) ==
    [ticket_id |-> i, modify_date |-> 1, priority |-> "High",
     subject |-> IF i \in null THEN Null ELSE {},
     email |-> {}, content |-> {}]
Batches ==
    { [i \in 1..n |-> AlertTicket(i, null)] : n \in BatchLens, null \in AlertNulls }

InitAlert ==
    /\ new_tickets \in Batches
    /\ updated_tickets \in Batches
    /\ args = [NoArgs EXCEPT !.webhook = TRUE, !.quiet = TRUE]
    /\ upstream = new_tickets
    /\ now = 1
    /\ state = check_tickets(EmptyState, new_tickets, 1).state
    /\ file = save_state(state)
    /\ pc = "alert"
    /\ idx = 1
    /\ triaged_count = 0
    /\ calls = << Call("load_state", <<>>, NoVerdict, TRUE),
                  Call("get_tickets", new_tickets, NoVerdict, TRUE),
                  Call("filter", <<>>, NoVerdict, TRUE),
                  Call("save_state", <<>>, NoVerdict, TRUE) >>
    /\ exit_code = -1
    /\ observed = [new |-> new_tickets, updated |-> updated_tickets]
    /\ stable = TRUE
    /\ everNew = {TicketKey(new_tickets[i]) : i \in 1..Len(new_tickets)}
    /\ lastRev = [i \in TicketIds |-> IF i <= Len(new_tickets) THEN 1 ELSE 0]
    /\ offered = [i \in TicketIds |-> 0]
    /\ delivered = [i \in TicketIds |-> 0]
    /\ secrets = GoodSecrets
    /\ client = NoClient
    /\ other = NoOther

NextAlert ==
    \/ BatchAlert
    \/ BatchRaise
    \/ Exit

SpecAlert == InitAlert /\ [][NextAlert]_vars

\* ----------------------------------------- the triage classifier alone
\* Subjects, bodies and senders for the skip filter and the fallback
\* generator: a text is the set of the rules' phrases it contains.  A text
\* that contains "invoice attached" contains "invoice".
Within == {<<"invoice", "invoice attached">>}
Reading(S) == S \cup {w[1] : w \in {x \in Within : x[2] \in S}}
MaxPhrases == 2
SubjectPhrases ==
    {"unsubscribe", "invoice attached", "automatic reply", "please", "payment",
     "no dial tone", "forward", "voicemail", "phone", "do not reply"}
RuleSubjects ==
    {Reading(S) : S \in {X \in SUBSET SubjectPhrases : Cardinality(X) <= MaxPhrases}}
    \cup {Null}
RuleBodies == {{}, {"down"}, {"please"}, {"[500+] please"}, {"newsletter"}}
RuleSenders == {{}, {"billing"}, {"noreply@"}, Null}

InitRules ==
    /\ \E s \in RuleSubjects, b \in RuleBodies, e \in RuleSenders :
          new_tickets = << [ticket_id |-> 1, modify_date |-> 1, priority |-> "Low",
                            subject |-> s, email |-> e, content |-> b] >>
    /\ upstream = new_tickets
    /\ now = 1
    /\ file = MissingFile
    /\ pc = "skip_filter"
    /\ args = NoArgs
    /\ state = EmptyState
    /\ updated_tickets = <<>>
    /\ idx = 1
    /\ triaged_count = 0
    /\ calls = <<>>
    /\ exit_code = -1
    /\ observed = [new |-> new_tickets, updated |-> <<>>]
    /\ NoHistory
    /\ secrets = GoodSecrets
    /\ client = NoClient
    /\ other = NoOther

\* should_skip, skip_reason = should_skip_ticket(ticket)
ApplySkip ==
    /\ pc = "skip_filter"
    /\ LET t == new_tickets[idx]
           r == should_skip_ticket(t)
       IN calls' = Append(calls, Call("should_skip_ticket", <<t>>,
                                      [skip |-> r[1], reason |-> r[2]], TRUE))
    /\ pc' = "fallback"
    /\ UNCHANGED <<sideVars, file, upstream, now, args, state, new_tickets,
                   updated_tickets, idx, triaged_count, exit_code, observed,
                   histVars>>

\* generate_fallback_triage(ticket, subject, content_text) returns.
ApplyFallback ==
    /\ pc = "fallback"
    /\ LET t == new_tickets[idx]
           v == generate_fallback_triage(t.subject, t.content)
       IN /\ v # Raised
          /\ calls' = Append(calls, Call("fallback", <<t>>, v, TRUE))
    /\ pc' = "done"
    /\ UNCHANGED <<sideVars, file, upstream, now, args, state, new_tickets,
                   updated_tickets, idx, triaged_count, exit_code, observed,
                   histVars>>

\* generate_fallback_triage raises.
FallbackRaise ==
    /\ pc = "fallback"
    /\ LET t == new_tickets[idx]
           v == generate_fallback_triage(t.subject, t.content)
       IN /\ v = Raised
          /\ calls' = Append(calls, Call("fallback", <<t>>, v, FALSE))
    /\ pc' = "crashed"
    /\ exit_code' = 1
    /\ UNCHANGED <<sideVars, file, upstream, now, args, state, new_tickets,
                   updated_tickets, idx, triaged_count, observed, histVars>>

NextRules ==
    \/ ApplySkip
    \/ ApplyFallback
    \/ FallbackRaise

SpecRules == InitRules /\ [][NextRules]_vars

\* --------------------------------------------- the credential resolver alone
\* Every secret store of two paths, with and without a token in the
\* environment.
SecretStores ==
    [store : {<<a, b>> : a \in PassResults, b \in PassResults},
     env : {Absent, "env-token"}]

InitCreds ==
    /\ file = MissingFile
    /\ upstream = <<>>
    /\ now = 1
    /\ pc = "creds"
    /\ calls = <<>>
    /\ FreshLocals
    /\ NoHistory
    /\ secrets \in SecretStores
    /\ client = NoClient
    /\ other = NoOther

\* creds = get_credentials(profile) in api_request returns.
Resolve ==
    /\ pc = "creds"
    /\ get_credentials(secrets).ok
    /\ calls' = Append(calls, Call("get_credentials", <<>>,
                                   get_credentials(secrets), TRUE))
    /\ pc' = "request"
    /\ UNCHANGED <<sideVars, file, upstream, now, args, state, new_tickets,
                   updated_tickets, idx, triaged_count, exit_code, observed,
                   histVars>>

\* get_credentials raises: under check_tickets main exits with 1.
ResolveRaise ==
    /\ pc = "creds"
    /\ ~get_credentials(secrets).ok
    /\ calls' = Append(calls, Call("get_credentials", <<>>,
                                   get_credentials(secrets), FALSE))
    /\ pc' = "aborted"
    /\ exit_code' = 1
    /\ UNCHANGED <<sideVars, file, upstream, now, args, state, new_tickets,
                   updated_tickets, idx, triaged_count, observed, histVars>>

NextCreds ==
    \/ Resolve
    \/ ResolveRaise

SpecCreds == InitCreds /\ [][NextCreds]_vars

\* ------------------------------------------------------------------ the Motion client
\* (src/skills/motion/scripts/motion.py)

\* max_retries: the default of api_request's parameter.
DefaultRetries == 3

\* int(e.headers.get("Retry-After", 60)): the default and a decimal string
\* convert, any other string raises ValueError.
RetryAfterSeconds(h) ==
    CASE h = Absent -> [ok |-> TRUE, seconds |-> 60]
      [] h = "30" -> [ok |-> TRUE, seconds |-> 30]
      [] OTHER -> [ok |-> FALSE, seconds |-> 0]

\* What urlopen gives for one attempt: a 2xx response with its body, or an
\* HTTPError with its status and headers. The Retry-After header of a 429 is
\* missing, a number of seconds, or an HTTP date.
MotionResponses ==
    {[status |-> 200, body |-> b, retry_after |-> Absent] : b \in {"task", "tasks"}}
        \cup {[status |-> 204, body |-> Absent, retry_after |-> Absent]}
        \cup {[status |-> 429, body |-> Absent, retry_after |-> h] :
                 h \in {Absent, "30", "Wed, 21 Oct 2026 07:28:00 GMT"}}
        \cup {[status |-> s, body |-> Absent, retry_after |-> Absent] : s \in {401, 404, 500}}

\* api_request is called: max_retries is the caller's, the key is configured
\* or not.
InitMotion ==
    /\ file = MissingFile
    /\ upstream = <<>>
    /\ now = 1
    /\ pc = "client"
    /\ calls = <<>>
    /\ FreshLocals
    /\ NoHistory
    /\ secrets = NoSecrets
    /\ client \in {[pc |-> "key", api_key |-> k, max_retries |-> m, attempt |-> 0,
                     log |-> <<>>, slept |-> 0, result |-> Absent, status |-> -1,
                     said |-> Absent] :
                        k \in {Absent, "motion-key"}, m \in 0..DefaultRetries}
    /\ other = NoOther

ClientStep(c) ==
    /\ pc = "client"
    /\ client' = c
    /\ UNCHANGED <<file, upstream, now, cycleVars, histVars, secrets, other>>

\* get_api_key(): the key, or an error message and exit status 1.
MotionKey ==
    /\ client.pc = "key"
    /\ client.api_key # Absent
    /\ ClientStep([client EXCEPT !.pc = "request"])

MotionNoKey ==
    /\ client.pc = "key"
    /\ client.api_key = Absent
    /\ ClientStep([client EXCEPT !.pc = "exited", !.status = 1, !.said = "no key"])

\* One pass of the loop that ends in return: 204 gives None, any other 2xx
\* the decoded body.
MotionReturn ==
    /\ client.pc = "request"
    /\ client.attempt < client.max_retries
    /\ \E r \in MotionResponses :
          /\ r.status \in {200, 204}
          /\ ClientStep([client EXCEPT !.pc = "returned",
                                       !.log = Append(@, r),
                                       !.result = IF r.status = 204 THEN "None" ELSE r.body])

\* One pass that ends in continue: a 429 while attempts remain sleeps for
\* Retry-After seconds.
MotionRetry ==
    /\ client.pc = "request"
    /\ client.attempt < client.max_retries
    /\ \E r \in MotionResponses :
          /\ r.status = 429
          /\ RetryAfterSeconds(r.retry_after).ok
          /\ client.attempt < client.max_retries - 1
          /\ ClientStep([client EXCEPT !.log = Append(@, r),
                                       !.slept = @ + RetryAfterSeconds(r.retry_after).seconds,
                                       !.attempt = @ + 1])

\* One pass that ends in sys.exit(1): any other HTTPError, or a 429 at the
\* last attempt.
MotionError ==
    /\ client.pc = "request"
    /\ client.attempt < client.max_retries
    /\ \E r \in MotionResponses :
          /\ r.status \notin {200, 204}
          /\ r.status = 429 =>
                /\ RetryAfterSeconds(r.retry_after).ok
                /\ ~(client.attempt < client.max_retries - 1)
          /\ ClientStep([client EXCEPT !.pc = "exited",
                                       !.log = Append(@, r),
                                       !.status = 1,
                                       !.said = "API Error"])

\* One pass that ends in an exception nothing catches: int() of a Retry-After
\* that is not a number, raised inside the except clause.
MotionRaise ==
    /\ client.pc = "request"
    /\ client.attempt < client.max_retries
    /\ \E r \in MotionResponses :
          /\ r.status = 429
          /\ ~RetryAfterSeconds(r.retry_after).ok
          /\ ClientStep([client EXCEPT !.pc = "raised",
                                       !.log = Append(@, r),
                                       !.status = 1,
                                       !.said = "ValueError"])

\* The loop ran out: "Max retries exceeded", exit status 1.
MotionExhausted ==
    /\ client.pc = "request"
    /\ ~(client.attempt < client.max_retries)
    /\ ClientStep([client EXCEPT !.pc = "exited", !.status = 1,
                                 !.said = "Max retries exceeded"])

NextMotion ==
    \/ MotionKey
    \/ MotionNoKey
    \/ MotionReturn
    \/ MotionRetry
    \/ MotionError
    \/ MotionRaise
    \/ MotionExhausted

SpecMotion == InitMotion /\ [][NextMotion]_vars

\* The scheduler runs the process until api_request returns or exits.
FairSpecMotion == SpecMotion /\ WF_vars(NextMotion)

\* ------------------------------------------------------------------ the SkySwitch client
\* (src/skills/skyswitch/scripts/skyswitch.py)

\* Seconds before its expiry from which a cached token is no longer used.
TokenBuffer == 300

\* No token file.
NoTokenFile == [kind |-> "missing"]
TokenFile(token, at, expires_in) ==
    [kind |-> "doc", access_token |-> token, cached_at |-> at, expires_in |-> expires_in]

\* load_cached_token(): the file's data, None for a missing file or a token
\* within five minutes of its expiry.
load_cached_token(f, time) ==
    IF f.kind = "missing" THEN NoTokenFile
    ELSE IF time > f.cached_at + f.expires_in - TokenBuffer THEN NoTokenFile
    ELSE f

\* Faulty cache lookup: a forced refresh still uses the cached token.
UsesCache_IgnoreForce(f, time, force_refresh) ==
    load_cached_token(f, time).kind = "doc"

\* get_access_token(): the cached token is used unless a refresh is forced
\* or there is none.
UsesCache(f, time, force_refresh) ==
    ~force_refresh /\ load_cached_token(f, time).kind = "doc"

\* Status and text of the responses of the API.
SkyResponses ==
    {[status |-> s, text |-> b] : s \in {200, 201}, b \in {"domains", "routes", ""}}
        \cup {[status |-> 204, text |-> ""]}
        \cup {[status |-> s, text |-> "error"] : s \in {401, 403, 500}}

\* One HTTP exchange of the call.
Exchange(to, bearer, r) ==
    [to |-> to, bearer |-> bearer, status |-> r.status, text |-> r.text]

\* api_request is called at time t with the token file f.
InitSky ==
    /\ file = MissingFile
    /\ upstream = <<>>
    /\ now = 1
    /\ pc = "client"
    /\ calls = <<>>
    /\ FreshLocals
    /\ NoHistory
    /\ secrets = NoSecrets
    /\ client \in {[pc |-> "token", retry |-> retry, force_refresh |-> FALSE,
                     cache |-> f, time |-> t, token |-> Absent, log |-> <<>>,
                     result |-> Absent, status |-> -1] :
                      f \in {NoTokenFile, TokenFile("token-0", 0, 3600)},
                      t \in {1000, 3400},
                      retry \in BOOLEAN}
    /\ other = NoOther

\* get_access_token returns the cached token.
SkyCachedToken ==
    /\ client.pc = "token"
    /\ UsesCache(client.cache, client.time, client.force_refresh)
    /\ ClientStep([client EXCEPT !.pc = "request",
                                 !.token = load_cached_token(client.cache, client.time).access_token])

\* get_access_token asks for a token and gets one, a new one with every grant:
\* it is saved and returned.
SkyTokenGranted ==
    /\ client.pc = "token"
    /\ ~UsesCache(client.cache, client.time, client.force_refresh)
    /\ LET t == IF \E k \in 1..Len(client.log) :
                        client.log[k].to = "oauth" /\ client.log[k].status = 200
                    THEN "token-2" ELSE "token-1"
       IN ClientStep([client EXCEPT
              !.pc = "request",
              !.log = Append(@, Exchange("oauth", Absent, [status |-> 200, text |-> t])),
              !.cache = TokenFile(t, client.time, 3600),
              !.token = t])

\* get_access_token asks for a token and is refused: exit status 1.
SkyTokenRefused ==
    /\ client.pc = "token"
    /\ ~UsesCache(client.cache, client.time, client.force_refresh)
    /\ \E s \in {400, 401, 500} :
          ClientStep([client EXCEPT
              !.pc = "exited",
              !.log = Append(@, Exchange("oauth", Absent, [status |-> s, text |-> "error"])),
              !.status = 1])

\* The first request is answered 401 and retry is on: a refresh is forced.
SkyRefresh ==
    /\ client.pc = "request"
    /\ ~client.force_refresh
    /\ client.retry
    /\ \E r \in SkyResponses :
          /\ r.status = 401
          /\ ClientStep([client EXCEPT
                 !.pc = "token",
                 !.force_refresh = TRUE,
                 !.log = Append(@, Exchange("api", client.token, r))])

\* The response that is kept has a status outside 200, 201, 204: exit status 1.
SkyError ==
    /\ client.pc = "request"
    /\ \E r \in SkyResponses :
          /\ ~(r.status = 401 /\ client.retry /\ ~client.force_refresh)
          /\ r.status \notin {200, 201, 204}
          /\ ClientStep([client EXCEPT
                 !.pc = "exited",
                 !.log = Append(@, Exchange("api", client.token, r)),
                 !.status = 1])

\* The response that is kept is a success: {} for 204 or an empty text, else
\* the decoded text.
SkyReturn ==
    /\ client.pc = "request"
    /\ \E r \in SkyResponses :
          /\ r.status \in {200, 201, 204}
          /\ ClientStep([client EXCEPT
                 !.pc = "returned",
                 !.log = Append(@, Exchange("api", client.token, r)),
                 !.result = IF r.status = 204 \/ r.text = "" THEN "{}" ELSE r.text])

NextSky ==
    \/ SkyCachedToken
    \/ SkyTokenGranted
    \/ SkyTokenRefused
    \/ SkyRefresh
    \/ SkyError
    \/ SkyReturn

SpecSky == InitSky /\ [][NextSky]_vars

\* ------------------------------------------------------------------ claims
Ids(tickets) == {TicketKey(tickets[i]) : i \in 1..Len(tickets)} \ {NoId}
Occ(tickets, t) == Cardinality({i \in 1..Len(tickets) : tickets[i] = t})
IdOcc(tickets, id) == Cardinality({i \in 1..Len(tickets) : TicketKey(tickets[i]) = id})

\* Calls that hand a ticket to a notification destination.
SendOps == {"post_slack", "post_discord", "print", "alert_new", "alert_updated"}
\* Calls made for one ticket by the triage loop after the skip filter.
TriageOps == {"ticket_details", "claude", "fallback", "post_slack", "post_discord",
              "print"}

RECURSIVE SentFrom(_, _)
\* How often ticket t was handed to a destination from call i on.
SentFrom(i, t) ==
    IF i > Len(calls) THEN 0
    ELSE (IF calls[i].op \in SendOps THEN Occ(calls[i].tickets, t) ELSE 0)
         + SentFrom(i + 1, t)
Sent(t) == SentFrom(1, t)

AfterDetect == pc = "filter"
CycleDone == pc = "done" /\ exit_code = 0
SeenIn(f) == DOMAIN f.doc.seen_tickets
BillingSubject(t) == t.subject \cap billing_keywords # {}

\* C1: a cycle that loads the state persisted by the previous cycle and
\* receives the same upstream tickets returns no new and no updated ticket.
C1_Idempotent ==
    (AfterDetect /\ stable) => (new_tickets = <<>> /\ updated_tickets = <<>>)

\* Lemma beside C1: when the response gives each identifier one revision,
\* the second cycle returns two empty lists.
OneRevisionEach(tickets) ==
    \A i, j \in 1..Len(tickets) :
        TicketKey(tickets[i]) = TicketKey(tickets[j])
            => tickets[i].modify_date = tickets[j].modify_date
IdempotentOnTicketSets ==
    (AfterDetect /\ stable /\ OneRevisionEach(upstream))
        => (new_tickets = <<>> /\ updated_tickets = <<>>)

\* C2: a ticket classified as new is in the persisted state from the save on,
\* before and whatever the outcome of detail fetch, triage and delivery, and
\* no later cycle classifies it as new.
C2_NeverNewAgain ==
    /\ []((pc \notin {"filter", "save"} /\ everNew # {})
            => (file.kind = "doc" /\ everNew \subseteq SeenIn(file)))
    /\ [][(pc = "detect" /\ pc' = "filter") => Ids(new_tickets') \cap everNew = {}]_vars

C2_Witness ==
    /\ AfterDetect
    /\ \E id \in everNew \cap Ids(upstream) :
          offered[id] = 1 /\ delivered[id] = 0 /\ id \notin Ids(new_tickets)

\* C3 as stated: when a cycle with a destination ends, every ticket it
\* classified as new or updated and the skip filter lets through was handed
\* to the destination exactly once.  Stated for the cycles in which nothing
\* but the claim is in play: no --important-only, and a response that lists
\* each ticket once.
C3_ExactlyOnce ==
    (CycleDone /\ (args.triage \/ args.webhook) /\ ~args.important_only
              /\ \A id \in TicketIds : IdOcc(upstream, id) <= 1)
        => \A t \in Range(observed.new) \cup Range(observed.updated) :
              ~ShouldSkip(t) => Sent(t) = 1

\* C3 as amended: a classified ticket is handed to the destination at most
\* once: no more often in a cycle than the cycle classified it, and as a new
\* ticket at most once over all cycles.
C3_AtMostOnce ==
    /\ \A id \in TicketIds : offered[id] <= 1
    /\ \A t \in UpstreamTickets : Sent(t) <= Occ(observed.new \o observed.updated, t)

C3_Witness ==
    /\ CycleDone
    /\ \E id \in Ids(upstream) : delivered[id] = 1 /\ id \notin Ids(observed.new)
    /\ \E t \in Range(observed.updated) : Sent(t) = 0

\* C4 as stated, at the end of each later cycle: a ticket whose post as a new
\* ticket failed, that upstream returns again, is handed to the destination
\* again by a cycle with a destination whose posts are all accepted.
C4_OfferedAgain ==
    (CycleDone /\ (args.triage \/ args.webhook)
              /\ \A i \in 1..Len(calls) : calls[i].ok)
        => \A id \in Ids(upstream) :
              (offered[id] >= 1 /\ delivered[id] = 0)
                  => \E i \in 1..Len(calls) :
                        calls[i].op \in SendOps /\ id \in Ids(calls[i].tickets)

\* C4 as amended: the failed post is not retried; a ticket whose post as a
\* new ticket failed is never handed to a destination as a new ticket again.
C4_NotRetried ==
    [][\A id \in TicketIds :
          (offered[id] >= 1 /\ delivered[id] = 0) => offered'[id] = offered[id]]_vars

C4_Witness ==
    /\ CycleDone
    /\ args.triage
    /\ \A i \in 1..Len(calls) : calls[i].ok
    /\ \E id \in Ids(upstream) : offered[id] = 1 /\ delivered[id] = 0

\* C5: when credential resolution or the ticket query fails the cycle ends
\* with failure, the state file and the in-memory state are as loaded, and
\* nothing was triaged, routed or saved.
C5_AbortLeavesState ==
    /\ [](pc = "aborted" =>
            /\ exit_code = 1
            /\ state = load_state(file)
            /\ new_tickets = <<>> /\ updated_tickets = <<>>
            /\ \A i \in 1..Len(calls) :
                  calls[i].op \notin TriageOps \cup SendOps \cup {"save_state", "skip"})
    /\ [][pc' = "aborted" => (file' = file /\ state' = state)]_vars

C5_Witness ==
    /\ pc = "aborted"
    /\ file.kind = "doc"
    /\ SeenIn(file) # {}
    /\ Ids(upstream) \ SeenIn(file) # {}

\* C6: in one detection cycle an identifier appears at most once in the new
\* and updated lists taken together.
C6_ClassifiedOnce ==
    AfterDetect =>
        \A id \in TicketIds : IdOcc(observed.new \o observed.updated, id) <= 1

\* C7: the stored revision of a ticket is the one the most recent response
\* that contained it returned for it, also when it is lower than the one
\* stored before.
C7_LastWriteWins ==
    /\ pc \in {"filter", "save"} =>
          \A id \in DOMAIN state.seen_tickets :
              state.seen_tickets[id].modify_date = lastRev[id]
    /\ (pc \notin {"filter", "save"} /\ file.kind = "doc") =>
          \A id \in SeenIn(file) : file.doc.seen_tickets[id].modify_date = lastRev[id]

C7_Witness ==
    /\ pc = "output"
    /\ \E id \in SeenIn(file) :
          /\ file.doc.seen_tickets[id].modify_date = 1
          /\ file.doc.seen_tickets[id].last_updated = now
          /\ file.doc.seen_tickets[id].first_seen < now
          /\ IdOcc(upstream, id) = 1

RoutingOps == TriageOps \cup SendOps \cup {"skip"}
\* C8 as stated: the state file is written after all classification and
\* routing of the cycle.
C8_SaveLast ==
    \A i, j \in 1..Len(calls) :
        (calls[i].op = "save_state" /\ i < j) => calls[j].op \notin RoutingOps

\* C8 as amended: load, detect, filter, persist, then triage and routing.
C8_SaveBeforeRouting ==
    /\ \A i \in 1..Len(calls) :
          /\ calls[i].op = "load_state" => i = 1
          /\ (calls[i].op = "get_tickets" /\ calls[i].ok) => i = 2
          /\ calls[i].op = "filter" => i = 3
          /\ calls[i].op = "save_state" => i = 4
          /\ calls[i].op \in RoutingOps => i > 4
    /\ CycleDone => (Len(calls) >= 4 /\ calls[4].op = "save_state")

C8_Witness ==
    /\ CycleDone
    /\ \E i \in 1..Len(calls) : calls[i].op \in SendOps /\ ~calls[i].ok

\* C9: in triage mode a ticket with a billing subject gets no detail fetch,
\* no reasoning call, no verdict and no post, and takes no verdict slot.
C9_BillingSkippedFirst ==
    (args.triage /\ pc \in {"triage", "exit", "done"}) =>
        /\ \A i \in 1..Len(calls) :
              calls[i].op \in TriageOps =>
                  \A t \in Range(calls[i].tickets) : ~BillingSubject(t)
        /\ triaged_count =
              Cardinality({k \in 1..(idx - 1) : ~BillingSubject(new_tickets[k])})

C9_Witness ==
    /\ args.triage
    /\ pc = "exit"
    /\ triaged_count = 1
    /\ \E k \in 1..Len(new_tickets) :
          /\ BillingSubject(new_tickets[k])
          /\ new_tickets[k].content \cap urgent_signals # {}
          /\ k < idx

\* C10: a ticket the skip filter drops reaches no destination, in triage
\* mode and in batch mode: no accepted post carries it.
C10_SkippedNeverSent ==
    \A i \in 1..Len(calls) :
        (calls[i].op \in SendOps /\ calls[i].ok)
            => \A t \in Range(calls[i].tickets) : ~ShouldSkip(t)

\* Calls that hand one verdict to the destination of the triage loop.
PostOps == {"post_slack", "post_discord", "print"}
CallsOf(ops) == {i \in 1..Len(calls) : calls[i].op \in ops}
\* The positions of new_tickets the loop made a call of `ops` for.
TicketsWith(ops) ==
    {k \in 1..Len(new_tickets) :
        \E i \in CallsOf(ops) : calls[i].tickets = <<new_tickets[k]>>}
\* Tickets before position k that the skip filter lets through.
PassedBefore(k) == {j \in 1..(k - 1) : ~ShouldSkip(new_tickets[j])}

\* C11: in one cycle at most five tickets get a verdict, from the reasoning
\* collaborator or the fallback, and at most five verdicts are posted,
\* whatever the list of new tickets and whatever the posts come to.
C11_AtMostFiveVerdicts ==
    /\ Cardinality(TicketsWith({"claude", "fallback"} \cup PostOps)) <= TriageLimit
    /\ Cardinality(CallsOf({"claude"})) <= TriageLimit
    /\ Cardinality(CallsOf(PostOps)) <= TriageLimit
    /\ triaged_count <= TriageLimit

C11_Witness ==
    /\ pc = "exit"
    /\ Cardinality(TicketsWith({"claude"})) = TriageLimit
    /\ CallsOf({"skip"}) # {}
    /\ \E i \in CallsOf(PostOps) : ~calls[i].ok
    /\ idx <= Len(Take(new_tickets, ScanLimit))
    /\ ~ShouldSkip(new_tickets[idx])

\* C12: of 20 new tickets the skip filter lets through, exactly five get a
\* verdict and a post, and each of the other fifteen gets no verdict and is
\* named in the log of the cycle.
C12_FiveVerdictsRestLogged ==
    (CycleDone /\ Len(new_tickets) = 20
               /\ \A k \in 1..Len(new_tickets) : ~ShouldSkip(new_tickets[k]))
        => /\ Cardinality(TicketsWith(PostOps)) = 5
           /\ \A k \in 1..Len(new_tickets) \ TicketsWith(PostOps) :
                 /\ k \notin TicketsWith({"claude", "fallback"})
                 /\ \E i \in CallsOf({"log_new"}) :
                       new_tickets[k] \in Range(calls[i].tickets)

\* Lemma beside C12: the first five of the 20 get a verdict and a post, the
\* other fifteen get no call at all.
FiveOfTwenty ==
    (CycleDone /\ Len(new_tickets) = 20
               /\ \A k \in 1..Len(new_tickets) : ~ShouldSkip(new_tickets[k]))
        => /\ TicketsWith(PostOps) = 1..5
           /\ TicketsWith(TriageOps) = 1..5

\* The verdicts the template allows.
Categories == {"routing", "voicemail", "hardware", "billing", "access", "spam",
               "other"}
Urgencies == {"high", "medium", "low", "none"}
WellFormed(v) ==
    /\ v.source = "fallback"
    /\ v.category \in Categories
    /\ v.urgency \in Urgencies
    /\ v.action # ""

\* C13: every call of the fallback generator returns a verdict with a
\* category and an urgency of the template; it never raises, also for a
\* null subject.
C13_FallbackTotal ==
    \A i \in CallsOf({"fallback"}) : calls[i].ok /\ WellFormed(calls[i].verdict)

\* Lemma beside C13: for a subject that is a text the fallback generator
\* returns a well-formed verdict.
FallbackTotalOnTexts ==
    \A i \in CallsOf({"fallback"}) :
        calls[i].tickets[1].subject # Null
            => (calls[i].ok /\ WellFormed(calls[i].verdict))

\* C14: whenever the reasoning collaborator fails, the fallback generator
\* returns a verdict for that ticket, and that verdict is what the loop
\* posts next.
C14_FallbackOnFailure ==
    \A i \in CallsOf({"claude"}) :
        ~calls[i].ok =>
            /\ Len(calls) >= i + 2
            /\ calls[i + 1].op = "fallback" /\ calls[i + 1].ok
            /\ calls[i + 1].verdict.source = "fallback"
            /\ calls[i + 2].op \in PostOps
            /\ calls[i + 2].tickets = calls[i].tickets
            /\ calls[i + 2].verdict = calls[i + 1].verdict

\* Lemma beside C14: the same for the tickets whose subject is a text.
FallbackOnFailureOnTexts ==
    \A i \in CallsOf({"claude"}) :
        (~calls[i].ok /\ calls[i].tickets[1].subject # Null) =>
            /\ Len(calls) >= i + 2
            /\ calls[i + 1].op = "fallback" /\ calls[i + 1].ok
            /\ calls[i + 1].verdict.source = "fallback"
            /\ calls[i + 2].op \in PostOps
            /\ calls[i + 2].tickets = calls[i].tickets
            /\ calls[i + 2].verdict = calls[i + 1].verdict

\* C15: a text of the reasoning collaborator that does not follow the
\* template is never what the loop posts; the fallback verdict is.
C15_MalformedFallsBack ==
    \A i \in CallsOf(PostOps) :
        /\ calls[i].verdict # MalformedText
        /\ calls[i].verdict.source = "claude" => calls[i].verdict.category # ""

\* C16: every verdict of the triage loop goes to one destination, the Slack
\* channel when channel and token are both there, else the webhook when
\* there is one, else local output, the same for every ticket of the run.
C16_Precedence ==
    /\ \A i \in CallsOf(PostOps) :
          calls[i].op = IF args.slack_channel /\ args.slack_token THEN "post_slack"
                        ELSE IF args.webhook THEN "post_discord"
                        ELSE "print"
    /\ \A i, j \in CallsOf(PostOps) : calls[i].tickets = calls[j].tickets => i = j
    /\ pc # "crashed" => TicketsWith({"claude"}) = TicketsWith(PostOps)

C16_Witness ==
    /\ pc = "exit"
    /\ args.slack_channel /\ ~args.slack_token /\ args.webhook
    /\ Cardinality(CallsOf({"post_discord"})) >= 2

\* C17: a post that fails does not end the loop and undoes nothing: the
\* loop goes on to the next ticket, file and state stay as they are with the
\* ticket in them, and when the loop is over every ticket it had a verdict
\* slot for has its post.
C17_PostFailureIsolated ==
    /\ [][(/\ pc = "triage"
            /\ Len(calls') > Len(calls)
            /\ calls'[Len(calls')].op \in PostOps
            /\ ~calls'[Len(calls')].ok)
           => (/\ pc' = "triage"
               /\ idx' = idx + 1
               /\ file' = file /\ state' = state
               /\ exit_code' = exit_code)]_vars
    /\ [](\A i \in CallsOf(PostOps) :
             ~calls[i].ok => TicketKey(calls[i].tickets[1]) \in SeenOf(file))
    /\ [](pc \in {"exit", "done"} =>
             \A k \in 1..Len(Take(new_tickets, ScanLimit)) :
                 (~ShouldSkip(new_tickets[k])
                    /\ Cardinality(PassedBefore(k)) < TriageLimit)
                     => k \in TicketsWith(PostOps))

C17_Witness ==
    /\ pc = "exit"
    /\ \E i, j \in CallsOf(PostOps) :
          /\ i < j
          /\ ~calls[i].ok
          /\ calls[j].ok
          /\ calls[i].tickets # calls[j].tickets

\* C18: a state file that is missing, is not JSON or holds JSON of another
\* shape loads as the empty state, and the cycle goes on: it aborts only
\* when the credentials or the query fail, and it classifies every ticket
\* of the response as new.
C18_BadFileNotFatal ==
    file.kind # "doc" =>
        /\ pc = "detect" => state = EmptyState
        /\ pc = "aborted" => \E i \in 1..Len(calls) : ~calls[i].ok
        /\ pc = "filter" => Ids(observed.new) = Ids(upstream)

\* Lemma beside C18: the same for a file that is missing or is not JSON.
MissingOrCorruptNotFatal ==
    file.kind \in {"missing", "corrupt"} =>
        /\ pc = "detect" => state = EmptyState
        /\ pc = "aborted" => \E i \in 1..Len(calls) : ~calls[i].ok
        /\ pc = "filter" => Ids(observed.new) = Ids(upstream)

\* C19: save_state succeeds for every path, also one whose parent directory
\* does not exist, and leaves the whole state in the file.
C19_SaveCreatesDir ==
    \A i \in CallsOf({"save_state"}) :
        calls[i].ok /\ file.kind = "doc" /\ load_state(file) = state

\* Lemma beside C19: where the directory exists save_state replaces the file
\* with the whole state.
SaveReplacesFile ==
    \A i \in CallsOf({"save_state"}) :
        calls[i].ok => (file.kind = "doc" /\ load_state(file) = state)

\* C20: a record of the seen map is never deleted: from one state file to
\* the next the identifiers only grow and each keeps its record (its
\* first_seen), and the file has one record for every identifier ever
\* classified as new.
C20_NeverDeleted ==
    /\ [][file.kind = "doc" =>
            /\ file'.kind = "doc"
            /\ SeenIn(file) \subseteq SeenIn(file')
            /\ \A id \in SeenIn(file) :
                  file'.doc.seen_tickets[id].first_seen
                      = file.doc.seen_tickets[id].first_seen]_vars
    /\ []((pc \notin {"filter", "save"} /\ file.kind = "doc")
            => SeenIn(file) = everNew)

C20_Witness ==
    /\ pc = "output"
    /\ now = 2
    /\ Cardinality(SeenIn(file)) = 2
    /\ \E id \in SeenIn(file) :
          /\ id \notin Ids(upstream)
          /\ file.doc.seen_tickets[id].first_seen = 1

\* C21: the exit status of a cycle that succeeded tells a run that found at
\* least one new ticket from a run that found none, and neither status is
\* the failure status.
C21_ExitTellsNew ==
    (pc = "done" /\ ~args.json) =>
        /\ exit_code # 1
        /\ new_tickets # <<>> => exit_code # ExitIdle
        /\ new_tickets = <<>> => exit_code # ExitNew

\* Lemma beside C21: a cycle that succeeded never ends with the failure
\* status, with or without new tickets.
SuccessIsNotFailure ==
    pc = "done" => exit_code = 0

\* The calls whose failure the cycle does not survive.
FatalOps == {"get_credentials", "get_tickets"}
Ended == pc \in {"done", "aborted", "crashed"}

\* C22: a cycle ends with the failure status exactly when resolving the
\* credentials or the upstream query failed.
C22_FailureIffFatal ==
    Ended => (exit_code = 1 <=> \E i \in CallsOf(FatalOps) : ~calls[i].ok)

\* Lemma beside C22: the same for cycles that load a state file that is
\* missing, is not JSON or is a state document; the failures of the detail
\* fetch, of the reasoning process and of the posts are among their calls.
FailureIffFatalOnStateDicts ==
    (Ended /\ IsStateDict(state)) =>
        (exit_code = 1 <=> \E i \in CallsOf(FatalOps) : ~calls[i].ok)

\* The paths of the store that yield a token.
TokenPaths(s) ==
    {i \in 1..Len(s.store) :
        /\ s.store[i].kind = "lines"
        /\ NormalizedToken(s.store[i]) \notin {Absent, ""}}
Lookups == CallsOf({"get_credentials"})

\* C23: when every lookup in the secret store fails or yields no token and
\* the environment variables of the profile hold a token, the resolution
\* succeeds with the token of the environment.
C23_EnvFallback ==
    \A i \in Lookups :
        (TokenPaths(secrets) = {} /\ secrets.env # Absent) =>
            (calls[i].ok /\ calls[i].verdict.token = secrets.env)

\* Lemma beside C23: the resolution reads the secret store only.  It
\* succeeds exactly when a path yields a token and the program `pass` ran
\* for every path before it, and its token is then the one of the first
\* such path.
ResolvesFromStoreOnly ==
    \A i \in Lookups :
        LET hits == TokenPaths(secrets)
            first == CHOOSE p \in hits : \A q \in hits : p <= q
        IN /\ calls[i].ok <=>
                 /\ hits # {}
                 /\ \A q \in 1..(first - 1) : secrets.store[q].kind # "noprog"
           /\ calls[i].ok =>
                 calls[i].verdict.token = NormalizedToken(secrets.store[first])

\* What check_tickets finds for the ticket at position k of the response:
\* the positions before k with the same identifier, and the revision on
\* record when the loop reaches k.
Earlier(k) ==
    {j \in 1..(k - 1) : TicketKey(upstream[j]) = TicketKey(upstream[k])}
OnRecord(k) ==
    Earlier(k) # {} \/ TicketKey(upstream[k]) \in SeenOf(file)
RecordedRev(k) ==
    IF Earlier(k) # {}
    THEN upstream[CHOOSE j \in Earlier(k) : \A i \in Earlier(k) : i <= j].modify_date
    ELSE file.doc.seen_tickets[TicketKey(upstream[k])].modify_date
Keyed == {k \in 1..Len(upstream) : TicketKey(upstream[k]) # NoId}
NewAt == {k \in Keyed : ~OnRecord(k)}
UpdatedAt ==
    {k \in Keyed : OnRecord(k) /\ RecordedRev(k) # upstream[k].modify_date}
PositionsOf(S, id) == {k \in S : TicketKey(upstream[k]) = id}

RECURSIVE Picked(_, _, _)
Picked(tickets, S, i) ==
    IF i > Len(tickets) THEN <<>>
    ELSE (IF i \in S THEN <<tickets[i]>> ELSE <<>>) \o Picked(tickets, S, i + 1)

\* C24: each ticket of the response is classified against the state as it
\* stands when the loop reaches it.  A ticket without a record is new and
\* gets a record with its revision and the time of the cycle; a ticket whose
\* record has another revision is updated, and revision and last_updated of
\* the record are replaced; a ticket whose record has the same revision is
\* in neither list and its record is as it was.
C24_ClassifiedAgainstState ==
    AfterDetect =>
        /\ observed.new = Picked(upstream, NewAt, 1)
        /\ observed.updated = Picked(upstream, UpdatedAt, 1)
        /\ DOMAIN state.seen_tickets = SeenOf(file) \cup Ids(upstream)
        /\ \A id \in DOMAIN state.seen_tickets :
              LET rec == state.seen_tickets[id]
                  news == PositionsOf(NewAt, id)
                  upds == PositionsOf(UpdatedAt, id)
                  last == CHOOSE k \in upds : \A j \in upds : j <= k
                  first == CHOOSE k \in news : TRUE
              IN /\ (news = {} /\ upds = {}) => rec = file.doc.seen_tickets[id]
                 /\ news # {} =>
                       /\ Cardinality(news) = 1
                       /\ rec.first_seen = now
                       /\ upds = {} =>
                             /\ rec.modify_date = upstream[first].modify_date
                             /\ rec.last_updated = NoTime
                 /\ news = {} => rec.first_seen = file.doc.seen_tickets[id].first_seen
                 /\ upds # {} =>
                       /\ rec.modify_date = upstream[last].modify_date
                       /\ rec.last_updated = now

\* A second cycle that finds one ticket updated and one as it was.
C24_Witness ==
    /\ AfterDetect
    /\ now = 2
    /\ Len(upstream) = 2
    /\ observed.new = <<>>
    /\ Len(observed.updated) = 1
    /\ \E k \in 1..2 :
          /\ k \notin UpdatedAt
          /\ TicketKey(upstream[k]) \in SeenOf(file)
          /\ state.seen_tickets[TicketKey(upstream[k])]
                = file.doc.seen_tickets[TicketKey(upstream[k])]
          /\ TicketKey(upstream[3 - k]) # TicketKey(upstream[k])

\* C25: the state file is read and written without a lock.  A run at its
\* load or at its save is never kept waiting by the position of another
\* run, and each save leaves in the file the state of the run that saves,
\* whatever another run wrote since that run loaded.
C25_NoLock ==
    /\ pc = "load" => ENABLED Load
    /\ pc = "save" => ENABLED Save
    /\ other.pc = "load" => ENABLED OtherLoad
    /\ other.pc = "save" => ENABLED OtherSave
    /\ (pc = "output" /\ other.pc # "done") => file.doc = state
    /\ (other.pc = "done" /\ pc \in {"load", "detect", "filter", "save"})
          => file.doc = other.state

\* Both runs loaded the file before either saved and both classified ticket
\* 1 as new; the first run saved a record for ticket 2, the second run saved
\* after it, and the file has no record for ticket 2.
C25_Witness ==
    /\ pc = "done"
    /\ other.pc = "done"
    /\ 1 \in Ids(observed.new)
    /\ 1 \in Ids(other.new)
    /\ 2 \in Ids(observed.new)
    /\ everNew = {1, 2}
    /\ SeenIn(file) = {1}

\* Positions of the new list whose ticket got a verdict, from the reasoning
\* collaborator or from the fallback generator.
VerdictAt ==
    {k \in 1..Len(new_tickets) :
        \E i \in CallsOf({"claude", "fallback"}) :
            calls[i].tickets = <<new_tickets[k]>> /\ calls[i].ok}
\* Positions among the first ten that the skip filter lets through.
PassedInScan ==
    {k \in 1..Len(Take(new_tickets, ScanLimit)) : ~ShouldSkip(new_tickets[k])}
Min(a, b) == IF a <= b THEN a ELSE b
LoopLeft == pc \in {"exit", "done", "crashed"}

\* C26: when the triage loop is left, the number of tickets with a verdict
\* is the smaller of five and the number of tickets among the first ten that
\* the skip filter lets through, and no ticket at position eleven or later
\* has a verdict.
C26_VerdictCount ==
    LoopLeft =>
        /\ Cardinality(VerdictAt) = Min(TriageLimit, Cardinality(PassedInScan))
        /\ \A k \in VerdictAt : k <= ScanLimit

\* Lemma beside C26: the count is that of the claim whenever the loop runs
\* to its end, and in every run the tickets with a call of the loop are
\* among the first ten and no more than five of them have a verdict.
VerdictCountAtLoopEnd ==
    /\ pc \in {"exit", "done"} =>
          Cardinality(VerdictAt) = Min(TriageLimit, Cardinality(PassedInScan))
    /\ \A k \in TicketsWith(TriageOps \cup PostOps \cup {"skip"}) : k <= ScanLimit
    /\ Cardinality(VerdictAt) <= Min(TriageLimit, Cardinality(PassedInScan))

\* A run with six of the first ten tickets skipped: four verdicts, and the
\* ticket at position eleven, which the filter lets through, has none.
VerdictCountCase ==
    /\ pc = "exit"
    /\ Len(new_tickets) = 20
    /\ Cardinality(PassedInScan) = 4
    /\ Cardinality(VerdictAt) = 4
    /\ ~ShouldSkip(new_tickets[11])
    /\ 11 \notin VerdictAt

\* The verdicts the fallback generator returned, and the text it read for
\* each: the subject and the first 500 characters of the body.
Fallbacks == {i \in CallsOf({"fallback"}) : calls[i].ok}
ReadText(i) ==
    calls[i].tickets[1].subject \cup First500(calls[i].tickets[1].content)
Has(i, signals) == ReadText(i) \cap signals # {}
IsSpam(i) == Has(i, spam_signals)
IsAutoReply(i) ==
    ~IsSpam(i) /\ Has(i, auto_signals) /\ ~Has(i, request_signals)
IsBilling(i) == ~IsSpam(i) /\ ~IsAutoReply(i) /\ Has(i, billing_signals)
NoTerminalRule(i) == ~IsSpam(i) /\ ~IsAutoReply(i) /\ ~IsBilling(i)

AutoReplyWithRequest ==
    \E i \in Fallbacks :
        /\ Has(i, auto_signals)
        /\ Has(i, request_signals)
        /\ calls[i].verdict.action = "Review ticket"

\* C28: when no terminal rule matches, the urgency is high exactly when
\* urgent phrasing is present and medium otherwise, the category is the
\* first of routing, voicemail, hardware that matches and other when none
\* does, and the action asks for review; the subject "no dial tone" with an
\* empty body gives hardware or other, high, review.
C28_UrgencyAndCategory ==
    \A i \in Fallbacks :
        LET v == calls[i].verdict IN
        /\ NoTerminalRule(i) =>
              /\ v.urgency = (IF Has(i, urgent_signals) THEN "high" ELSE "medium")
              /\ v.category =
                    (IF Has(i, routing_signals) THEN "routing"
                     ELSE IF Has(i, voicemail_signals) THEN "voicemail"
                     ELSE IF Has(i, hardware_signals) THEN "hardware"
                     ELSE "other")
              /\ v.action = "Review ticket"
        /\ (calls[i].tickets[1].subject = {"no dial tone"}
              /\ calls[i].tickets[1].content = {}) =>
              /\ v.category \in {"hardware", "other"}
              /\ v.urgency = "high"
              /\ v.action = "Review ticket"

C28_Witness ==
    \E i \in Fallbacks :
        /\ calls[i].tickets[1].subject = {"no dial tone"}
        /\ calls[i].tickets[1].content = {}
        /\ calls[i].verdict = Verdict("fallback", "other", "high", "Review ticket")

\* The answers of the skip filter.
Skips == CallsOf({"should_skip_ticket"})
SubjectOf(i) == Text(calls[i].tickets[1].subject)
SenderOf(i) == Text(calls[i].tickets[1].email)

\* C29 as stated: the filter answers (true, reason) exactly when the subject
\* or the sender has a billing keyword, or the sender has a spam marker, or
\* the subject has system phrasing, with the first of these as the reason,
\* and (false, "") otherwise; null fields count as empty.
C29_SubjectOrSender ==
    \A i \in Skips :
        /\ calls[i].ok
        /\ calls[i].verdict =
              (IF (SubjectOf(i) \cup SenderOf(i)) \cap billing_keywords # {}
               THEN [skip |-> TRUE, reason |-> "billing/invoice"]
               ELSE IF SenderOf(i) \cap spam_domains # {}
               THEN [skip |-> TRUE, reason |-> "spam sender"]
               ELSE IF SubjectOf(i) \cap system_keywords # {}
               THEN [skip |-> TRUE, reason |-> "system notification"]
               ELSE [skip |-> FALSE, reason |-> ""])

\* C29 as amended: the billing keywords are looked for in the subject only.
\* The filter answers (true, reason) exactly when the subject has a billing
\* keyword, or the sender has a spam marker, or the subject has system
\* phrasing, with the first of these as the reason, and (false, "")
\* otherwise; null fields count as empty and the filter never fails.
C29_SubjectBillingOnly ==
    \A i \in Skips :
        LET billing == SubjectOf(i) \cap billing_keywords # {}
            spam == SenderOf(i) \cap spam_domains # {}
            system == SubjectOf(i) \cap system_keywords # {}
            r == calls[i].verdict
        IN /\ calls[i].ok
           /\ r.skip <=> (billing \/ spam \/ system)
           /\ billing => r.reason = "billing/invoice"
           /\ (~billing /\ spam) => r.reason = "spam sender"
           /\ (~billing /\ ~spam /\ system) => r.reason = "system notification"
           /\ ~r.skip => r.reason = ""

\* A sender with a billing keyword and a null subject: not skipped.
C29_Witness ==
    \E i \in Skips :
        /\ calls[i].tickets[1].subject = Null
        /\ SenderOf(i) \cap billing_keywords # {}
        /\ calls[i].verdict = [skip |-> FALSE, reason |-> ""]

\* The batch an alert call was made for.
BatchOf(i) ==
    IF calls[i].op = "alert_new" THEN new_tickets
    ELSE filter_important(updated_tickets)
Alerts == CallsOf({"alert_new", "alert_updated"})

\* C30: an alert for a batch of n tickets itemizes the first min(n, 10) of
\* them in their order; it carries "+N more" with N = n - 10 exactly when n
\* is above 10; and no alert is posted for an empty batch.
C30_BatchCap ==
    \A i \in Alerts :
        LET n == Len(BatchOf(i)) IN
        /\ n > 0
        /\ Len(calls[i].tickets) = Min(n, 10)
        /\ \A k \in 1..Len(calls[i].tickets) : calls[i].tickets[k] = BatchOf(i)[k]
        /\ n > 10 => calls[i].verdict.more = <<n - 10>>
        /\ n <= 10 => calls[i].verdict.more = <<>>

\* Twelve new tickets and no update: one alert, ten entries, "+2 more".
C30_Witness ==
    /\ pc = "exit"
    /\ Len(new_tickets) = 12
    /\ updated_tickets = <<>>
    /\ Cardinality(Alerts) = 1
    /\ \E i \in Alerts :
          /\ Len(calls[i].tickets) = 10
          /\ calls[i].verdict.more = <<2>>

\* A path qualifies when `pass` prints lines for it and the token they give
\* is not empty: the value of the key token when the key is there, the value
\* of VISION_TOKEN otherwise.
Qualifies(r) ==
    /\ r.kind = "lines"
    /\ \/ r.token = "store-token"
       \/ r.token = Absent /\ r.VISION_TOKEN = "legacy-token"
Qualifying == {p \in 1..Len(secrets.store) : Qualifies(secrets.store[p])}
FirstQualifying == CHOOSE p \in Qualifying : \A q \in Qualifying : p <= q
\* The program `pass` could not be run for a path that is tried.
NotRun ==
    \E q \in 1..Len(secrets.store) :
        /\ secrets.store[q].kind = "noprog"
        /\ Qualifying # {} => q < FirstQualifying

\* C31: the paths are tried in their order and the credentials are those of
\* the first path whose lookup succeeds with a non-empty token, the key
\* token winning over VISION_TOKEN; a path whose lookup exits with a failure
\* or gives no token is passed over; when no path qualifies the resolution
\* ends with an error, and it never returns credentials without a token.
C31_FirstQualifyingPath ==
    \A i \in Lookups :
        LET r == calls[i].verdict IN
        /\ (Qualifying # {} /\ ~NotRun) =>
              LET from == secrets.store[FirstQualifying] IN
              /\ calls[i].ok
              /\ r.token = (IF from.token = "store-token" THEN "store-token"
                             ELSE "legacy-token")
              /\ r.url = (IF from.url = Absent THEN DefaultUrl ELSE from.url)
        /\ Qualifying = {} =>
              (~calls[i].ok /\ r.error \in {"RuntimeError", "FileNotFoundError"})
        /\ (Qualifying = {} /\ ~NotRun) => r.error = "RuntimeError"
        /\ calls[i].ok => r.token \notin {Absent, ""}

\* The first path has a legacy token under an empty key token and is passed
\* over; the second has both keys and its key token is returned.
C31_Witness ==
    \E i \in Lookups :
        /\ secrets.store[1].kind = "lines"
        /\ secrets.store[1].token = ""
        /\ secrets.store[1].VISION_TOKEN = "legacy-token"
        /\ secrets.store[2].token = "store-token"
        /\ secrets.store[2].VISION_TOKEN = "legacy-token"
        /\ calls[i].ok
        /\ calls[i].verdict.token = "store-token"

\* The detail fetches that failed.
FailedDetails == {i \in CallsOf({"ticket_details"}) : ~calls[i].ok}
\* The iteration of the failed fetch i went on to a verdict from empty
\* content and to its post.
DegradedAt(i) ==
    /\ Len(calls) > i
    /\ calls[i + 1].op = "claude"
    /\ calls[i + 1].tickets = calls[i].tickets
    /\ \E j \in CallsOf(PostOps) :
          /\ j > i
          /\ j <= i + 3
          /\ calls[j].tickets = calls[i].tickets
          /\ calls[j].verdict # NoVerdict
          /\ calls[j].verdict # Raised
          /\ (calls[j].verdict.source = "fallback"
                /\ calls[i].tickets[1].subject \cap urgent_signals = {})
                => calls[j].verdict.urgency # "high"
\* Every ticket the loop has a verdict slot for is posted when it is left.
AllSlotsPosted ==
    \A k \in 1..Len(Take(new_tickets, ScanLimit)) :
        (~ShouldSkip(new_tickets[k]) /\ Cardinality(PassedBefore(k)) < TriageLimit)
            => k \in TicketsWith(PostOps)

\* C32: after a detail fetch that failed the ticket is triaged with empty
\* content, its verdict is routed, the cycle does not end there, and the
\* tickets after it are processed.
C32_DetailFailureDegrades ==
    /\ \A i \in FailedDetails : DegradedAt(i) /\ pc # "crashed"
    /\ (FailedDetails # {} /\ LoopLeft) => AllSlotsPosted

\* Lemma beside C32: the same for the runs whose tickets all have a text as
\* subject.
DetailFailureDegradesOnTexts ==
    NullSubjects(new_tickets) = {} =>
        /\ \A i \in FailedDetails : DegradedAt(i) /\ pc # "crashed"
        /\ (FailedDetails # {} /\ LoopLeft) => AllSlotsPosted

\* A run with texts as subjects in which the first fetch failed, the
\* reasoning process failed too, and a later ticket was posted.
DetailFailureCase ==
    /\ pc = "exit"
    /\ NullSubjects(new_tickets) = {}
    /\ \E i \in FailedDetails :
          /\ ~calls[i + 1].ok
          /\ calls[i + 2].verdict.urgency = "medium"
          /\ calls[i].tickets[1].content \cap urgent_signals # {}
          /\ \E j \in CallsOf(PostOps) :
                j > i + 3 /\ calls[j].tickets # calls[i].tickets

\* C33: check_tickets never changes the first_seen of a record that exists.
\* Of such a record it writes modify_date and last_updated when the ticket
\* is updated and nothing otherwise, and the record of a ticket that is not
\* in the response stays as it is; so the first_seen in the state file is
\* the one of the cycle that created the record.
C33_FirstSeenFrozen ==
    /\ [][(pc = "detect" /\ pc' = "filter") =>
            \A id \in DOMAIN state.seen_tickets :
                LET old == state.seen_tickets[id]
                    rec == state'.seen_tickets[id]
                IN /\ id \in DOMAIN state'.seen_tickets
                   /\ rec.first_seen = old.first_seen
                   /\ id \notin Ids(upstream) => rec = old
                   /\ id \notin Ids(observed'.updated) => rec = old
                   /\ id \in Ids(observed'.updated) => rec.last_updated = now]_vars
    /\ [][file.kind = "doc" =>
            \A id \in SeenIn(file) :
                /\ id \in SeenIn(file')
                /\ file'.doc.seen_tickets[id].first_seen
                      = file.doc.seen_tickets[id].first_seen
                /\ file.doc.seen_tickets[id].first_seen <= now]_vars

\* The second cycle finds a ticket of the first cycle updated: its record
\* has the new revision, last_updated 2 and first_seen 1.
C33_Witness ==
    /\ AfterDetect
    /\ now = 2
    /\ \E id \in Ids(observed.updated) :
          /\ state.seen_tickets[id].first_seen = 1
          /\ state.seen_tickets[id].last_updated = 2
          /\ file.doc.seen_tickets[id].first_seen = 1
          /\ file.doc.seen_tickets[id].modify_date
                # state.seen_tickets[id].modify_date

\* The calls that report tickets as new.
NewReports == CallsOf(TriageOps \cup {"alert_new", "log_new"})
Recorded == IF pc \in {"filter", "save"} THEN DOMAIN state.seen_tickets
            ELSE SeenOf(file)

\* C34: under --important-only a new ticket of another priority than High
\* and Urgent is in no reported list and in no call, and has its record in
\* the state all the same; no later cycle classifies or reports it as new,
\* whatever its priority is then: it is updated or not reported at all.
C34_FilteredStaysSeen ==
    /\ (args.important_only /\ pc \notin {"load", "detect", "filter", "idle"}) =>
          /\ \A k \in 1..Len(new_tickets) : IsImportant(new_tickets[k])
          /\ \A k \in 1..Len(updated_tickets) : IsImportant(updated_tickets[k])
          /\ \A i \in NewReports : \A t \in Range(calls[i].tickets) : IsImportant(t)
    /\ pc \notin {"load", "detect", "idle"} => Ids(observed.new) \subseteq Recorded
    /\ (now >= 2 /\ pc \notin {"load", "detect", "idle"}) =>
          /\ 1 \notin Ids(observed.new)
          /\ \A i \in NewReports : 1 \notin Ids(calls[i].tickets)
    /\ offered[1] = 0

\* The second cycle, with a webhook and without --important-only, finds the
\* ticket with priority High and another revision: updated, not new, alerted
\* as an update.
C34_Witness ==
    /\ pc = "exit"
    /\ now = 2
    /\ ~args.important_only
    /\ upstream[1].priority = "High"
    /\ observed.new = <<>>
    /\ 1 \in Ids(observed.updated)
    /\ file.doc.seen_tickets[1].first_seen = 1
    /\ \E i \in CallsOf({"alert_updated"}) : 1 \in Ids(calls[i].tickets)

BatchOps == {"alert_new", "alert_updated"}
Routed == pc \in {"triage", "alert", "exit", "done", "crashed"}
\* What the triage loop and the batch path do with the lists handed to
\* them: the loop works on new tickets only, the batch path on the new
\* tickets and on the updated tickets of priority High or Urgent.
RoutesOfLists ==
    /\ \A i \in CallsOf(TriageOps \cup {"skip"}) :
          /\ args.triage
          /\ Range(calls[i].tickets) \subseteq Range(new_tickets)
          /\ Range(calls[i].tickets) \subseteq Range(observed.new)
    /\ \A i \in CallsOf({"alert_new"}) :
          Range(calls[i].tickets) \subseteq Range(new_tickets)
    /\ \A i \in CallsOf({"alert_updated"}) :
          \A t \in Range(calls[i].tickets) :
              t \in Range(updated_tickets) /\ IsImportant(t)

\* C35 as stated: in a triage cycle that classified at least one ticket as
\* new no updated ticket is sent anywhere, and the batch path runs only when
\* triage is off or the cycle classified no ticket as new.
C35_TriageOrBatch ==
    /\ RoutesOfLists
    /\ (Routed /\ args.triage /\ observed.new # <<>>) =>
          /\ CallsOf(BatchOps) = {}
          /\ \A i \in CallsOf(SendOps) :
                Range(calls[i].tickets) \subseteq Range(observed.new)
    /\ CallsOf(BatchOps) # {} => (~args.triage \/ observed.new = <<>>)

\* C35 as amended: the list that decides is the list of new tickets main()
\* holds after the --important-only filter.  In a triage cycle in which
\* that list is not empty no updated ticket is sent anywhere, and the batch
\* path runs only when triage is off or that list is empty.
C35_TriageOrBatchOnReported ==
    /\ RoutesOfLists
    /\ (Routed /\ args.triage /\ new_tickets # <<>>) =>
          /\ CallsOf(BatchOps) = {}
          /\ \A i \in CallsOf(SendOps) :
                Range(calls[i].tickets) \subseteq Range(new_tickets)
    /\ CallsOf(BatchOps) # {} => (~args.triage \/ new_tickets = <<>>)

\* A triage cycle with a webhook, a new ticket and a high-priority update:
\* the new ticket is posted, the update is sent nowhere.
C35_Witness ==
    /\ pc = "exit"
    /\ args.triage /\ args.webhook
    /\ new_tickets # <<>>
    /\ \E k \in 1..Len(updated_tickets) : IsImportant(updated_tickets[k])
    /\ CallsOf(PostOps) # {}
    /\ CallsOf(BatchOps) = {}

\* A triage cycle under --important-only whose only new ticket is Low: the
\* batch path runs and alerts the high-priority update.
BatchInTriageCycle ==
    /\ pc = "exit"
    /\ args.triage /\ args.important_only
    /\ observed.new # <<>>
    /\ new_tickets = <<>>
    /\ CallsOf({"alert_updated"}) # {}

\* Tickets the cycle of time 1 recorded as new.
NewAtFirst ==
    {id \in SeenIn(file) : file.doc.seen_tickets[id].first_seen = 1}
AllReports == RoutingOps \cup BatchOps \cup {"log_new"}

\* C36: a cycle with --json saves the detection state and ends without a
\* call of the triage loop or of a destination; no later cycle reports a
\* ticket that cycle found new as new, and a later cycle that finds a
\* recorded ticket at its recorded revision reports nothing for it.
C36_JsonNeverAlerted ==
    /\ []((args.json /\ pc \in {"output", "done"}) => CallsOf(AllReports) = {})
    /\ []((args.json /\ pc = "done") =>
             /\ file = [kind |-> "doc", doc |-> state]
             /\ exit_code = 0
             /\ Ids(observed.new) \subseteq SeenIn(file)
             /\ \A id \in Ids(observed.new) : offered[id] = 0)
    /\ [](\A id \in NewAtFirst :
             /\ offered[id] = 0
             /\ \A i \in NewReports : id \notin Ids(calls[i].tickets))
    /\ [][(pc = "detect" /\ pc' = "filter") =>
            \A id \in SeenIn(file) :
                (\A k \in 1..Len(upstream) :
                    TicketKey(upstream[k]) = id =>
                        upstream[k].modify_date = file.doc.seen_tickets[id].modify_date)
                => id \notin Ids(observed'.new \o observed'.updated)]_vars

\* The cycle after the --json cycle has a webhook and gets the ticket the
\* --json cycle found new, at the same revision: no alert.
C36_Witness ==
    /\ pc = "exit"
    /\ now = 2
    /\ args.webhook
    /\ \E id \in NewAtFirst :
          /\ id \in Ids(upstream)
          /\ offered[id] = 0
    /\ CallsOf(AllReports) = {}

\* ------------------------------------------------------------------ C37
\* The attempts of the call so far, and how it ended.
MotionSent == Len(client.log)
MotionSucceeded(r) == r.status \in {200, 204}
MotionFailed == client.pc \in {"exited", "raised"}
MotionEnded == client.pc = "returned" \/ MotionFailed

\* Every attempt but the latest got a 429 while attempts remained.
MotionRetriesOn429 ==
    \A k \in 1..(MotionSent - 1) :
        /\ client.log[k].status = 429
        /\ k < client.max_retries

\* A return hands back what the latest attempt, the only successful one, got.
MotionReturnsFirstSuccess ==
    client.pc = "returned" =>
        /\ MotionSent >= 1
        /\ MotionSucceeded(client.log[MotionSent])
        /\ \A k \in 1..(MotionSent - 1) : ~MotionSucceeded(client.log[k])
        /\ client.result = IF client.log[MotionSent].status = 204
                           THEN "None" ELSE client.log[MotionSent].body

\* C37: Motion's api_request makes at most max_retries HTTP attempts, retries
\* only after a 429 and only while attempts remain, and a call that made an
\* attempt ends either with the response of its first successful attempt or
\* with a failure exit whose latest response is an HTTP error other than 429
\* or a 429 at attempt number max_retries.
C37_RetryLoop ==
    /\ MotionSent <= client.max_retries
    /\ MotionRetriesOn429
    /\ MotionReturnsFirstSuccess
    /\ (MotionFailed /\ MotionSent >= 1) =>
          /\ ~MotionSucceeded(client.log[MotionSent])
          /\ client.log[MotionSent].status = 429 => MotionSent = client.max_retries

\* The same, with the failure exit allowed on any 429 whose Retry-After is
\* not a number of seconds: holds.
MotionRetryLoopOnSeconds ==
    /\ MotionSent <= client.max_retries
    /\ MotionRetriesOn429
    /\ MotionReturnsFirstSuccess
    /\ (MotionFailed /\ MotionSent >= 1) =>
          /\ ~MotionSucceeded(client.log[MotionSent])
          /\ client.log[MotionSent].status = 429 =>
                \/ MotionSent = client.max_retries
                \/ ~RetryAfterSeconds(client.log[MotionSent].retry_after).ok
          /\ client.status = 1

\* Under a fair scheduler every call ends: holds of FairSpecMotion.
MotionTerminates == <>MotionEnded

\* A first attempt answered 429 with an HTTP date in Retry-After, attempts
\* remaining: the call is over with a ValueError and no second attempt.
MotionRaisedOn429 ==
    /\ client.pc = "raised"
    /\ MotionSent = 1
    /\ client.max_retries = DefaultRetries
    /\ client.log[1].status = 429
    /\ client.said = "ValueError"

\* Two 429s with readable Retry-After, then a 200: the body is returned.
MotionThirdAttemptReturns ==
    /\ client.pc = "returned"
    /\ MotionSent = DefaultRetries
    /\ client.slept = 90
    /\ client.result = "tasks"

\* ------------------------------------------------------------------ C38
\* The exchanges of the call so far, by destination.
SkySent(to) == {k \in 1..Len(client.log) : client.log[k].to = to}
SkyEnded == client.pc \in {"returned", "exited"}
SkyFirstApi == CHOOSE k \in SkySent("api") : \A j \in SkySent("api") : k <= j
SkyLastApi == CHOOSE k \in SkySent("api") : \A j \in SkySent("api") : k >= j
SkyFirstIs401 == SkySent("api") # {} /\ client.log[SkyFirstApi].status = 401

\* A forced refresh that was granted between the two requests.
SkyRefreshGranted ==
    \E k \in SkySent("oauth") : k > SkyFirstApi /\ client.log[k].status = 200

\* The second request carries the token of the forced refresh, which is a new
\* one and is the token now in the cache.
SkyRetriedWithNewToken ==
    /\ Cardinality(SkySent("api")) = 2
    /\ \E k \in SkySent("oauth") :
          /\ SkyFirstApi < k /\ k < SkyLastApi
          /\ client.log[k].status = 200
          /\ client.log[SkyLastApi].bearer = client.log[k].text
    /\ client.log[SkyLastApi].bearer # client.log[SkyFirstApi].bearer
    /\ client.cache.kind = "doc"
    /\ client.cache.access_token = client.log[SkyLastApi].bearer

\* A second request is sent only after a 401 with retry on, and the call ends
\* on the latest response: a failure exit for a status outside 200, 201, 204
\* (a second 401 included), a return otherwise.
SkyNoOtherRetry ==
    /\ Cardinality(SkySent("api")) = 2 => (SkyFirstIs401 /\ client.retry)
    /\ (SkyEnded /\ SkySent("api") # {} /\ ~(SkyFirstIs401 /\ client.retry
                                             /\ Cardinality(SkySent("api")) = 1)) =>
          IF client.log[SkyLastApi].status \in {200, 201, 204}
          THEN client.pc = "returned"
          ELSE client.pc = "exited" /\ client.status = 1

\* C38 as stated: the SkySwitch api_request sends at most two HTTP requests
\* per call; when the first response is 401 and retry is on it retries exactly
\* once with a force-refreshed token that replaces the cached one; a second
\* 401 or any status outside 200/201/204 ends in a failure exit.
C38_AtMostTwoRequests ==
    /\ Len(client.log) <= 2
    /\ (SkyEnded /\ SkyFirstIs401 /\ client.retry) => SkyRetriedWithNewToken
    /\ SkyNoOtherRetry

\* C38, amended: at most two requests go to the endpoint, each preceded by at
\* most one token request; a first 401 with retry on is retried exactly once
\* with the force-refreshed token that replaces the cached one when the
\* refresh is granted, and ends in a failure exit without a retry when it is
\* refused; a second 401 or any status outside 200/201/204 ends in a failure
\* exit.
C38_AtMostTwoApiRequests ==
    /\ Cardinality(SkySent("api")) <= 2
    /\ Cardinality(SkySent("oauth")) <= 2
    /\ Len(client.log) <= 4
    /\ (SkyEnded /\ SkyFirstIs401 /\ client.retry) =>
          IF SkyRefreshGranted
          THEN SkyRetriedWithNewToken
          ELSE /\ Cardinality(SkySent("api")) = 1
               /\ client.pc = "exited"
               /\ client.status = 1
               /\ client.log[Len(client.log)].to = "oauth"
    /\ SkyNoOtherRetry

\* A call with a usable cached token whose first response was 401: the retry
\* went out with the new token, which is in the cache, and got a second 401.
C38_Witness ==
    /\ client.pc = "exited"
    /\ Len(client.log) = 3
    /\ client.log[1].bearer = "token-0"
    /\ client.log[3].bearer = "token-1"
    /\ client.log[3].status = 401
    /\ client.cache.access_token = "token-1"

\* A call without a usable cached token sent four HTTP requests.
SkyFourRequests ==
    /\ client.pc = "returned"
    /\ Len(client.log) = 4

\* A refused refresh: a first 401 with retry on and no second request.
SkyRefusedRefresh ==
    /\ client.pc = "exited"
    /\ client.retry
    /\ SkyFirstIs401
    /\ Cardinality(SkySent("api")) = 1

====
